---- MODULE Spec2Model ----
(***************************************************************************)
(* Model of the chat backend's live connection registry                    *)
(* (app/core/connection_manager.py), of the streaming session handler      *)
(* (app/routers/ws_chat.py), of the REST send-message operation            *)
(* (app/routers/message.py, app/services/message.py) and of the session    *)
(* tokens (app/core/utils.py, app/routers/auth.py).                        *)
(*                                                                         *)
(* Three specifications share the state:                                   *)
(*   SpecRegistry  the ConnectionManager driven directly through its three *)
(*                 methods with arbitrary arguments;                       *)
(*   Spec          the program: one session handler per streaming          *)
(*                 connection, REST send-message requests, the clock;      *)
(*   SpecAuth      the authentication endpoints: login, logout and the     *)
(*                 refresh exchange on the two token tables, the clock.    *)
(***************************************************************************)
EXTENDS Integers, Sequences, FiniteSets, TLC

\* ------------------------------------------------------------------ bounds
\* websockets; messages stored (and direct broadcast callers, REST requests) in
\* a run; seconds the clock runs.
NumConns == 2
MaxMsgs == 1
MaxTime == 1
\* requests to the authentication endpoints (login, logout, access_token) in a run.
MaxCalls == 4
\* requests to the chatroom endpoints (create, join, direct message) in a run.
MaxRoomCalls == 3
\* requests to login and logout in a run that also opens websockets.
MaxSessionCalls == 2

\* ------------------------------------------------------- program constants
WS_1008_POLICY_VIOLATION == 1008
\* utils.ACCESS_TOKEN_EXPIRY (used as minutes) and auth.REFRESH_EXPIRY (days).
ACCESS_TOKEN_EXPIRY == 120
REFRESH_EXPIRY == 3

\* ------------------------------------------------------------ finite sets
Conns == 1..NumConns
Rooms == {1, 2}
Users == {1, 2}
Reqs == 1..MaxMsgs
Callers == 1..MaxMsgs
Contents == {"hi", "yo"}
AuthReqs == 1..MaxCalls
RoomReqs == 1..MaxRoomCalls
SessionReqs == 1..MaxSessionCalls

WsTask(c) == <<"ws", c>>
RestTask(r) == <<"rest", r>>
ApiTask(k) == <<"api", k>>
ProgramTasks == {WsTask(c) : c \in Conns} \cup {RestTask(r) : r \in Reqs}
Tasks == ProgramTasks \cup {ApiTask(k) : k \in Callers}

\* ------------------------------------------------------------------ state
VARIABLES
    active_connections,  \* ConnectionManager.active_connections
    application_state,   \* per websocket: CONNECTING, CONNECTED, DISCONNECTED
    transport,           \* per websocket: "open" or "closed"
    close_code,          \* per websocket: the code the application closed it with, 0 if none
    delivered,           \* per websocket: the payloads its client has received, in order
    bcast,               \* per task: the broadcast it is suspended in, or NoJob
    api,                 \* SpecRegistry: per caller, "idle", "broadcast", "returned", "raised"
    raised,              \* SpecRegistry: what the last direct disconnect call raised, or "none"
    handler,             \* Spec: per connection, websocket_endpoint's position and locals
    req,                 \* Spec: per REST request, send_message's position and locals
    messages,            \* the messages table, in insertion order
    chatrooms,           \* the rows of the chatrooms table
    participants,        \* the rows of the chatroomparticipants table
    discd,               \* history: <<room, websocket>> pairs a completed disconnect has removed
    now,                 \* the clock, in seconds
    blacklistedtokens,   \* the blacklistedtokens table, in insertion order
    refreshtokens,       \* the refreshtokens table, in insertion order
    uuids,               \* how many uuid4 values have been drawn
    issued,              \* history: the tokens the endpoints have returned, in order
    areq,                \* SpecAuth: per request, the endpoint's position and locals
    call,                \* SpecToken: one create_access_token / verify_access_token call
    rreq,                \* SpecRooms: per request, the endpoint's position and locals
    quota                \* how many messages the run stores at most

\* -------------------------------------------------------------- sequences
Range(s) == {s[i] : i \in 1..Len(s)}

\* list.remove(x): drops the first occurrence of x (the caller has checked
\* that there is one; Python raises ValueError otherwise).
ListRemoveKeep(list, x) == list
ListRemove(list, x) ==
    LET i == CHOOSE k \in 1..Len(list) :
                 list[k] = x /\ \A j \in 1..(k - 1) : list[j] # x
    IN  SubSeq(list, 1, i - 1) \o SubSeq(list, i + 1, Len(list))

\* ------------------------------------------------ the registry, as a dict
\* active_connections is a function whose DOMAIN is the set of keys present.
DictSet(d, k, v) == [x \in DOMAIN d \cup {k} |-> IF x = k THEN v ELSE d[x]]
DictDel(d, k) == [x \in DOMAIN d \ {k} |-> d[x]]

\* ConnectionManager.connect, after accept(): create the list if absent, append.
ConnectAppend(ac, chatroom_id, websocket) ==
    LET base == IF chatroom_id \in DOMAIN ac THEN ac
                ELSE DictSet(ac, chatroom_id, <<>>)
    IN  DictSet(base, chatroom_id, Append(base[chatroom_id], websocket))

\* ConnectionManager.disconnect raises ValueError (list.remove) when the room
\* has an entry that does not hold the websocket.
DisconnectRaises(ac, chatroom_id, websocket) ==
    /\ chatroom_id \in DOMAIN ac
    /\ websocket \notin Range(ac[chatroom_id])

\* ConnectionManager.disconnect: the registry it leaves.
DisconnectKeepEmpty(ac, chatroom_id, websocket) ==
    IF chatroom_id \notin DOMAIN ac \/ DisconnectRaises(ac, chatroom_id, websocket)
    THEN ac
    ELSE DictSet(ac, chatroom_id, ListRemove(ac[chatroom_id], websocket))
DisconnectResult(ac, chatroom_id, websocket) ==
    IF chatroom_id \notin DOMAIN ac THEN ac
    ELSE IF DisconnectRaises(ac, chatroom_id, websocket) THEN ac
    ELSE LET rest == ListRemove(ac[chatroom_id], websocket)
         IN  IF rest = <<>> THEN DictDel(ac, chatroom_id)
             ELSE DictSet(ac, chatroom_id, rest)

\* The <<room, websocket>> pair disconnect has taken out of the registry, if any.
DisconnectRemoved(ac, chatroom_id, websocket) ==
    IF chatroom_id \in DOMAIN ac /\ websocket \in Range(ac[chatroom_id])
    THEN {<<chatroom_id, websocket>>} ELSE {}

\* The exception disconnect ends with ("none": it returns).
DisconnectError(ac, chatroom_id, websocket) ==
    IF DisconnectRaises(ac, chatroom_id, websocket) THEN "ValueError" ELSE "none"

\* ------------------------------------------------- broadcast, as iteration
\* ConnectionManager.broadcast iterates the room's list object in place: a
\* job is the position of that iteration. live is FALSE when the room had no
\* entry at the call, or when the list being iterated has been emptied and
\* dropped from the dict since (the iterator then finds nothing more, also if
\* a later connect creates a new list for the room). tag names the call: the
\* id of the stored message, or the direct caller. members is history, kept
\* for the broadcasts of handlers and requests: the websockets registered in
\* the room when the call was made.
NoMessage == [none |-> TRUE]
NoJob ==
    [active |-> FALSE, room |-> 0, message |-> NoMessage, idx |-> 0,
     live |-> FALSE, tag |-> 0, members |-> {}]

BroadcastBegin(ac, chatroom_id, message, tag) ==
    [active |-> TRUE, room |-> chatroom_id, message |-> message, idx |-> 1,
     live |-> chatroom_id \in DOMAIN ac, tag |-> tag, members |-> {}]

WithMembers(job, ac) ==
    [job EXCEPT !.members =
        IF job.room \in DOMAIN ac THEN Range(ac[job.room]) ELSE {}]

\* What a client holds after a send_json of the job's message reached it.
Delivery(job) == [room |-> job.room, message |-> job.message, tag |-> job.tag]

BroadcastExhausted(ac, job) ==
    \/ ~job.live
    \/ job.idx > Len(ac[job.room])

\* A loop that walks the list of whichever room comes first in the registry.
BroadcastTargetAnyRoom(ac, job) ==
    LET first == CHOOSE r \in DOMAIN ac : TRUE IN
    IF job.idx <= Len(ac[first]) THEN ac[first][job.idx] ELSE ac[job.room][job.idx]
BroadcastTarget(ac, job) == ac[job.room][job.idx]

\* The jobs after disconnect(chatroom_id, websocket) has reduced the registry
\* from ac to ac2: an iterator steps by index over the live list, so a removal
\* leaves every idx as it is; deleting the entry orphans the emptied list.
JobsAfterDisconnect(jobs, ac, ac2, chatroom_id) ==
    IF chatroom_id \in DOMAIN ac /\ chatroom_id \notin DOMAIN ac2
    THEN [t \in DOMAIN jobs |->
            IF jobs[t].active /\ jobs[t].room = chatroom_id
            THEN [jobs[t] EXCEPT !.live = FALSE] ELSE jobs[t]]
    ELSE jobs

\* What send_json raises on a websocket whose transport is closed: Starlette
\* turns the server's OSError into WebSocketDisconnect, or raises RuntimeError.
SendErrors == {"WebSocketDisconnect", "RuntimeError"}


\* ------------------------------------------------------- chatroom records
\* The rows ChatRoom(...) and ChatRoomParticipant(...) with their generated
\* ids, the id the next insert into a table gets (no row of it is deleted
\* here), and what the send and handshake paths read of the two tables: the
\* ids that get_single_chatroom finds and the pairs participant_check finds.
ChatRoom(id, name, is_private, is_direct_message, owner_id) ==
    [id |-> id, name |-> name, is_private |-> is_private,
     is_direct_message |-> is_direct_message, owner_id |-> owner_id]
ChatRoomParticipant(id, user_id, chatroom_id) ==
    [id |-> id, user_id |-> user_id, chatroom_id |-> chatroom_id]
NextId(table) == Cardinality(table) + 1
RoomIds(table) == {row.id : row \in table}
Memberships(table) == {<<row.user_id, row.chatroom_id>> : row \in table}

\* ------------------------------------------------------------ user records
Username(u) == <<"user", u>>
Email(u) == <<"mail", u>>
\* The user snapshot a login puts in a token (auth.login's user_payload).
UserPayload(u) == [user_id |-> u, username |-> Username(u), email |-> Email(u)]

\* ----------------------------------------------------------------- tokens
\* A token is its signature status and its claims; a claims dict is a
\* function whose DOMAIN is the set of keys present.
FarExp == MaxTime + 1
Token(sig, claims) == [sig |-> sig, claims |-> claims]
GoodToken(u) == Token("ok", [user |-> UserPayload(u), exp |-> FarExp, jti |-> u])
ShortToken == Token("ok", [user |-> UserPayload(1), exp |-> 1, jti |-> 1])
BadSigToken == Token("bad", [user |-> UserPayload(1), exp |-> FarExp, jti |-> 1])
GarbageToken == Token("malformed", <<>>)
NoJtiToken == Token("ok", [user |-> UserPayload(2), exp |-> FarExp])
NoUserToken == Token("ok", [exp |-> FarExp, jti |-> 1])
WsTokens == {GoodToken(1), ShortToken, BadSigToken, GarbageToken, NoJtiToken,
             NoUserToken}

\* The Authorization header of a handshake: absent, or "<scheme> <token>".
NoHeader == [present |-> FALSE, scheme |-> "", token |-> GarbageToken]
Header(scheme, token) == [present |-> TRUE, scheme |-> scheme, token |-> token]
Headers == {NoHeader, Header("Basic", GoodToken(1))}
             \cup {Header("Bearer", t) : t \in WsTokens}

\* jwt.decode(token, key, algorithms): the PyJWTError it raises at time t, or
\* "none". The signature and structure are checked first, then exp (a token
\* is expired when exp <= now).
JwtDecodeErrorNoExp(token, t) ==
    IF token.sig = "malformed" THEN "DecodeError"
    ELSE IF token.sig # "ok" THEN "InvalidSignatureError"
    ELSE "none"
JwtDecodeError(token, t) ==
    IF token.sig = "malformed" THEN "DecodeError"
    ELSE IF token.sig # "ok" THEN "InvalidSignatureError"
    ELSE IF "exp" \in DOMAIN token.claims /\ token.claims.exp <= t
         THEN "ExpiredSignatureError"
    ELSE "none"

\* websocket_endpoint's handshake: TRUE when it closes the connection with
\* the policy-violation code instead of registering it.
HandshakeRejectsAnyScheme(header, t) ==
    \/ ~header.present
    \/ JwtDecodeError(header.token, t) # "none"
    \/ "user" \notin DOMAIN header.token.claims
HandshakeRejects(header, t) ==
    \/ ~header.present
    \/ header.scheme # "Bearer"
    \/ JwtDecodeError(header.token, t) # "none"
    \/ "user" \notin DOMAIN header.token.claims

\* ----------------------------------------------------- the token service
\* Python's None for an omitted session_id or jti (uuid values are 1, 2, ...)
\* and for an omitted expiry (a timedelta is never negative here).
NoId == 0
NoExpiry == -1
\* timedelta(minutes=m) and timedelta(days=d), in seconds.
Minutes(m) == m * 60
Days(d) == d * 86400
\* str(uuid.uuid4()), the n-th value drawn being n: two draws never agree.
Uuid4(n) == n + 1
\* dict.get(key): the value, or None.
DictGet(d, k) == IF k \in DOMAIN d THEN d[k] ELSE NoId

\* create_access_token(user_data, expiry, refresh, session_id, jti) called at
\* time t when n uuids have been drawn: jti is defaulted first, then session_id.
CreateAccessTokenSameJti(user_data, expiry, refresh, session_id, jti, t, n) ==
    Token("ok", [user |-> user_data,
                 exp |-> t + (IF expiry # NoExpiry THEN expiry
                              ELSE Minutes(ACCESS_TOKEN_EXPIRY)),
                 jti |-> IF jti # NoId THEN jti ELSE session_id,
                 refresh |-> refresh,
                 session_id |-> session_id])
CreateAccessTokenSeconds(user_data, expiry, refresh, session_id, jti, t, n) ==
    Token("ok", [user |-> user_data,
                 exp |-> t + (IF expiry # NoExpiry THEN expiry
                              ELSE ACCESS_TOKEN_EXPIRY),
                 jti |-> IF jti # NoId THEN jti ELSE Uuid4(n),
                 refresh |-> refresh,
                 session_id |-> IF session_id # NoId THEN session_id
                                ELSE Uuid4(n + (IF jti # NoId THEN 0 ELSE 1))])
CreateAccessTokenOwnSession(user_data, expiry, refresh, session_id, jti, t, n) ==
    Token("ok", [user |-> user_data,
                 exp |-> t + (IF expiry # NoExpiry THEN expiry
                              ELSE Minutes(ACCESS_TOKEN_EXPIRY)),
                 jti |-> IF jti # NoId THEN jti ELSE Uuid4(n),
                 refresh |-> refresh,
                 session_id |-> Uuid4(n + (IF jti # NoId THEN 0 ELSE 1))])
CreateAccessToken(user_data, expiry, refresh, session_id, jti, t, n) ==
    LET token_expiry == IF expiry # NoExpiry THEN expiry
                        ELSE Minutes(ACCESS_TOKEN_EXPIRY)
        drawn == IF jti # NoId THEN 0 ELSE 1
    IN  Token("ok", [user |-> user_data,
                     exp |-> t + token_expiry,
                     jti |-> IF jti # NoId THEN jti ELSE Uuid4(n),
                     refresh |-> refresh,
                     session_id |-> IF session_id # NoId THEN session_id
                                    ELSE Uuid4(n + drawn)])
\* How many uuids that call draws.
UuidsDrawn(session_id, jti) ==
    (IF jti # NoId THEN 0 ELSE 1) + (IF session_id # NoId THEN 0 ELSE 1)

\* verify_access_token(token) at time t: what it raises (the exception's type
\* and message), or no exception. ExpiredSignatureError is a PyJWTError and is
\* caught by the first handler; the KeyError of a missing jti is raised inside
\* the try and caught by neither.
PyJWTErrors == {"DecodeError", "InvalidSignatureError", "ExpiredSignatureError"}
Raises(type, msg) == [raises |-> type, msg |-> msg]
Returns == Raises("none", "")
VerifyAccessTokenCatchAll(token, t) ==
    LET e == JwtDecodeError(token, t) IN
    IF e \in PyJWTErrors THEN Raises("Exception", "Invalid token")
    ELSE IF e = "ExpiredSignatureError" THEN Raises("Exception", "Token has expired.")
    ELSE IF "jti" \notin DOMAIN token.claims
         THEN Raises("KeyError", "Token does not contain 'jti' field!")
    ELSE Returns
VerifyAccessToken(token, t) ==
    LET e == JwtDecodeError(token, t) IN
    IF e = "ExpiredSignatureError" THEN Raises("Exception", "Token has expired.")
    ELSE IF e \in PyJWTErrors THEN Raises("Exception", "Invalid token")
    ELSE IF "jti" \notin DOMAIN token.claims
         THEN Raises("KeyError", "Token does not contain 'jti' field!")
    ELSE Returns

\* ------------------------------------------------------ the revocation store
\* BlacklistedToken(token, token_jti, expires_at) as create_token_blacklist
\* builds it, and RefreshToken(jti, user_id, session_id, expires_at) as
\* save_refresh_token builds it (revoked defaults to False).
BlacklistRow(token) ==
    [token |-> token, token_jti |-> DictGet(token.claims, "jti"),
     expires_at |-> token.claims.exp]
RefreshRowSwapped(jti, user_id, session_id, expires_at) ==
    [jti |-> jti, user_id |-> session_id, session_id |-> user_id,
     expires_at |-> expires_at, revoked |-> FALSE]
RefreshRow(jti, user_id, session_id, expires_at) ==
    [jti |-> jti, user_id |-> user_id, session_id |-> session_id,
     expires_at |-> expires_at, revoked |-> FALSE]

\* The unique constraints of blacklistedtokens (token, token_jti) and of
\* refreshtokens (jti, session_id): TRUE when the insert is refused.
BlacklistUniqueViolationNone(table, row) == FALSE
BlacklistUniqueViolation(table, row) ==
    \E i \in 1..Len(table) :
        table[i].token = row.token \/ table[i].token_jti = row.token_jti
RefreshUniqueViolation(table, row) ==
    \E i \in 1..Len(table) :
        table[i].jti = row.jti \/ table[i].session_id = row.session_id

\* get_blacklisted_token(token) and get_blacklisted_token_jti(jti): is there a
\* row (scalar_one_or_none is not None).
GetBlacklistedToken(table, token) == \E i \in 1..Len(table) : table[i].token = token
GetBlacklistedTokenJti(table, jti) == \E i \in 1..Len(table) : table[i].token_jti = jti
\* What a completed logout leaves of a token: its blacklist row and the revoked
\* refresh row of its session.
RevokedAtLogout(blacklist, refresh, token) ==
    /\ GetBlacklistedToken(blacklist, token)
    /\ \E i \in 1..Len(refresh) :
            /\ refresh[i].session_id = DictGet(token.claims, "session_id")
            /\ refresh[i].revoked

\* create_token_blacklist(token) at time t: the exception it ends with, or
\* "none". A decode failure (or a missing exp) becomes ValueError; the
\* insert is refused by a unique constraint at commit.
CreateTokenBlacklistError(table, token, t) ==
    IF JwtDecodeError(token, t) # "none" \/ "exp" \notin DOMAIN token.claims
    THEN "ValueError"
    ELSE IF BlacklistUniqueViolation(table, BlacklistRow(token)) THEN "IntegrityError"
    ELSE "none"

\* delete_blacklisted_token at time t: the rows with expires_at < now go.
UnexpiredOrNow(row, t) == ~(row.expires_at <= t)
Unexpired(row, t) == ~(row.expires_at < t)
DeleteBlacklistedTokenAll(table, t) == <<>>
DeleteBlacklistedToken(table, t) == SelectSeq(table, LAMBDA row : Unexpired(row, t))

\* validate_refresh_token_jti(jti) at time t: TRUE when a row with that jti
\* is neither revoked nor expired (otherwise it raises 403).
ValidateRefreshTokenJtiAnyRow(table, jti, t) ==
    \E i \in 1..Len(table) : table[i].jti = jti
ValidateRefreshTokenJti(table, jti, t) ==
    \E i \in 1..Len(table) :
        /\ table[i].jti = jti
        /\ table[i].revoked = FALSE
        /\ table[i].expires_at > t

\* revoke_refresh_token(session_id): the table after the row of that session,
\* if there is one, got revoked = True.
RevokeRefreshTokenByJti(table, session_id) ==
    [i \in 1..Len(table) |->
        IF table[i].jti = session_id
        THEN [table[i] EXCEPT !.revoked = TRUE] ELSE table[i]]
RevokeRefreshToken(table, session_id) ==
    [i \in 1..Len(table) |->
        IF table[i].session_id = session_id
        THEN [table[i] EXCEPT !.revoked = TRUE] ELSE table[i]]

\* --------------------------------------------------------------- messages
\* datetime.isoformat() and str(datetime) differ in the date/time separator.
IsoFormat(ts) == <<ts, "T">>
DatetimeStr(ts) == <<ts, " ">>

\* The inbound payloads of the streaming endpoint: with or without "content".
Payloads == {[content |-> x] : x \in Contents} \cup {[text |-> "hi"]}

\* Message(chatroom_id, sender_id, content): timestamp defaults to now.
NewMessage(chatroom_id, sender_id, content, t) ==
    [chatroom_id |-> chatroom_id, sender_id |-> sender_id, content |-> content,
     timestamp |-> t]
NoRecord == [none |-> TRUE]

\* session.add + commit + refresh: the row as stored, with its generated id.
Stored(table, new_message) ==
    [id |-> Len(table) + 1, chatroom_id |-> new_message.chatroom_id,
     sender_id |-> new_message.sender_id, content |-> new_message.content,
     timestamp |-> new_message.timestamp]

\* The dict the streaming handler broadcasts for a stored message.
WsPayloadNow(current_user, rec) ==
    [sender |-> current_user.username, content |-> rec.content,
     timestamp |-> IsoFormat(now)]
WsPayload(current_user, rec) ==
    [sender |-> current_user.username, content |-> rec.content,
     timestamp |-> IsoFormat(rec.timestamp)]

\* The dict the REST send-message operation broadcasts for a stored message.
RestPayload(current_user, rec) ==
    [type |-> "message", sender |-> current_user.username, content |-> rec.content,
     timestamp |-> DatetimeStr(rec.timestamp)]

\* ------------------------------------------------------- state, grouped
apiVars == <<api, raised>>
authVars == <<blacklistedtokens, refreshtokens, uuids, issued, areq, call>>
dbVars == <<chatrooms, participants, rreq, quota, authVars>>
progVars == <<handler, req, messages, dbVars, now>>
chatVars == <<active_connections, application_state, transport, close_code,
              delivered, bcast, api, raised, handler, req, messages, chatrooms,
              participants, discd, rreq, quota>>
wsVars == <<active_connections, application_state, transport, close_code,
            delivered, bcast, api, raised, handler, req, messages, discd, quota>>
vars == <<chatVars, now, authVars>>

\* A handler or request before it runs, and its locals once it has ended;
\* revoked_token is history: whether the token presented at the handshake had
\* been logged out by then.
IdleHandler ==
    [pc |-> "init", exit |-> "", header |-> NoHeader, chatroom_id |-> 0,
     current_user |-> NoRecord, new_message |-> NoRecord,
     revoked_token |-> FALSE]
IdleReq ==
    [pc |-> "init", status |-> 0, chatroom_id |-> 0, current_user |-> NoRecord,
     new_message |-> NoRecord]

\* An authentication request before it runs; jti_listed and verified are
\* history: whether the token's jti was blacklisted when the request arrived,
\* and what logout's verify_access_token did.
NotVerified == Raises("", "")
IdleAuth ==
    [op |-> "", pc |-> "init", status |-> 0, token |-> GarbageToken,
     session_id |-> NoId, jti_listed |-> FALSE, verified |-> NotVerified]

\* A request to a chatroom endpoint before it runs: the authenticated user,
\* the path and body parameters, and the id of the room it returns.
IdleRoomReq ==
    [op |-> "", pc |-> "init", status |-> 0, current_user |-> 0,
     chatroom_id |-> 0, name |-> "", receiver_id |-> 0, data |-> 0]

\* A caller of the token service before it calls: the arguments it will pass
\* to create_access_token, the time of the call, the token returned, and what
\* verify_access_token then raises or returns.
IdleCall ==
    [pc |-> "idle", user_data |-> NoRecord, expiry |-> NoExpiry,
     refresh |-> FALSE, session_id |-> NoId, jti |-> NoId, at |-> 0,
     token |-> GarbageToken, verified |-> NotVerified, token_data |-> NoRecord]

\* The program after construction, with its tables as first populated.
Constructed ==
    /\ active_connections = <<>>
    /\ application_state = [c \in Conns |-> "CONNECTING"]
    /\ transport = [c \in Conns |-> "open"]
    /\ close_code = [c \in Conns |-> 0]
    /\ delivered = [c \in Conns |-> <<>>]
    /\ bcast = [t \in Tasks |-> NoJob]
    /\ api = [k \in Callers |-> "idle"]
    /\ raised = "none"
    /\ handler = [c \in Conns |-> IdleHandler]
    /\ req = [r \in Reqs |-> IdleReq]
    /\ messages = <<>>
    /\ chatrooms = {ChatRoom(1, "general", FALSE, FALSE, 2)}
    /\ participants = {ChatRoomParticipant(1, 2, 1)}
    /\ discd = {}
    /\ now = 0
    /\ blacklistedtokens = <<>>
    /\ refreshtokens = <<>>
    /\ uuids = 0
    /\ issued = <<>>
    /\ areq = [q \in AuthReqs |-> IdleAuth]
    /\ call = IdleCall
    /\ rreq = [q \in RoomReqs |-> IdleRoomReq]

Init == Constructed /\ quota = MaxMsgs

\* ------------------------------------------------------------ environment
\* The client of an accepted websocket goes away.
PeerClose(c) ==
    /\ application_state[c] = "CONNECTED"
    /\ transport[c] = "open"
    /\ transport' = [transport EXCEPT ![c] = "closed"]
    /\ UNCHANGED <<active_connections, application_state, close_code, delivered,
                   bcast, api, raised, discd, progVars>>

\* -------------------------------------------- SpecRegistry: direct callers
\* manager.connect(chatroom_id, websocket). accept() raises RuntimeError on a
\* websocket that is not CONNECTING, before anything is registered.
ApiConnect(room, c) ==
    /\ IF application_state[c] # "CONNECTING"
       THEN UNCHANGED <<active_connections, application_state, discd>>
       ELSE /\ application_state' = [application_state EXCEPT ![c] = "CONNECTED"]
            /\ active_connections' = ConnectAppend(active_connections, room, c)
            /\ discd' = discd \ {<<room, c>>}
    /\ UNCHANGED <<transport, close_code, delivered, bcast, api, raised, progVars>>

\* manager.disconnect(chatroom_id, websocket).
ApiDisconnect(room, c) ==
    /\ raised' = DisconnectError(active_connections, room, c)
    /\ active_connections' = DisconnectResult(active_connections, room, c)
    /\ bcast' = JobsAfterDisconnect(bcast, active_connections, active_connections', room)
    /\ discd' = discd \cup DisconnectRemoved(active_connections, room, c)
    /\ UNCHANGED <<application_state, transport, close_code, delivered, api, progVars>>

\* manager.broadcast(chatroom_id, message) is called by caller k, up to its
\* first suspension.
ApiBroadcast(k, room) ==
    /\ api[k] = "idle"
    /\ api' = [api EXCEPT ![k] = "broadcast"]
    /\ bcast' = [bcast EXCEPT ![ApiTask(k)] =
                    BroadcastBegin(active_connections, room, [id |-> k], k)]
    /\ UNCHANGED <<active_connections, application_state, transport, close_code,
                   delivered, raised, discd, progVars>>

\* One turn of caller k's loop: the loop ends, or one send_json.
ApiBroadcastStep(k) ==
    LET job == bcast[ApiTask(k)] IN
    /\ api[k] = "broadcast"
    /\ IF BroadcastExhausted(active_connections, job)
       THEN /\ api' = [api EXCEPT ![k] = "returned"]
            /\ bcast' = [bcast EXCEPT ![ApiTask(k)] = NoJob]
            /\ UNCHANGED delivered
       ELSE LET target == BroadcastTarget(active_connections, job) IN
            IF transport[target] = "open"
            THEN /\ delivered' = [delivered EXCEPT ![target] =
                        Append(@, Delivery(job))]
                 /\ bcast' = [bcast EXCEPT ![ApiTask(k)].idx = @ + 1]
                 /\ UNCHANGED api
            ELSE /\ api' = [api EXCEPT ![k] = "raised"]
                 /\ bcast' = [bcast EXCEPT ![ApiTask(k)] = NoJob]
                 /\ UNCHANGED delivered
    /\ UNCHANGED <<active_connections, application_state, transport, close_code,
                   raised, discd, progVars>>

NextRegistry ==
    \/ \E room \in Rooms, c \in Conns : ApiConnect(room, c)
    \/ \E room \in Rooms, c \in Conns : ApiDisconnect(room, c)
    \/ \E k \in Callers, room \in Rooms : ApiBroadcast(k, room)
    \/ \E k \in Callers : ApiBroadcastStep(k)
    \/ \E c \in Conns : PeerClose(c)

SpecRegistry == Init /\ [][NextRegistry]_vars

\* ------------------------------------------------- Spec: session handlers
\* A handler that has ended keeps only how it ended and what was presented;
\* the server closes the transport of a handler that returned or raised.
Ended(h, exit) ==
    [pc |-> "done", exit |-> exit, header |-> h.header, chatroom_id |-> 0,
     current_user |-> NoRecord, new_message |-> NoRecord,
     revoked_token |-> h.revoked_token]

\* Messages stored or about to be: the bound on the messages of a run.
Pending ==
    Cardinality({c \in Conns : handler[c].pc = "commit"})
      + Cardinality({r \in Reqs : req[r].pc = "commit"})
MayAddMessage == Len(messages) + Pending < quota

\* The handler's `except WebSocketDisconnect: manager.disconnect(...)`: the
\* registry, the suspended broadcasts and the handler afterwards.
HandlerDisconnectsPass(c) ==
    /\ handler' = [handler EXCEPT ![c] = Ended(@, "WebSocketDisconnect")]
    /\ bcast' = [bcast EXCEPT ![WsTask(c)] = NoJob]
    /\ transport' = [transport EXCEPT ![c] = "closed"]
    /\ UNCHANGED <<active_connections, discd>>
HandlerDisconnects(c) ==
    LET room == handler[c].chatroom_id IN
    /\ active_connections' = DisconnectResult(active_connections, room, c)
    /\ bcast' = [JobsAfterDisconnect(bcast, active_connections,
                                     active_connections', room)
                    EXCEPT ![WsTask(c)] = NoJob]
    /\ discd' = discd \cup DisconnectRemoved(active_connections, room, c)
    /\ handler' = [handler EXCEPT ![c] =
            Ended(@, IF DisconnectRaises(active_connections, room, c)
                     THEN "ValueError" ELSE "WebSocketDisconnect")]
    /\ transport' = [transport EXCEPT ![c] = "closed"]

\* The handler ends with an exception it does not catch: nothing is
\* deregistered.
HandlerRaises(c, exception) ==
    /\ handler' = [handler EXCEPT ![c] = Ended(@, exception)]
    /\ bcast' = [bcast EXCEPT ![WsTask(c)] = NoJob]
    /\ transport' = [transport EXCEPT ![c] = "closed"]
    /\ UNCHANGED <<active_connections, discd>>

\* A handshake that also turns away unknown rooms and non-participants.
WsHandshakeMembersOnly(c, header, room) ==
    /\ handler[c].pc = "init"
    /\ IF \/ HandshakeRejects(header, now)
          \/ room \notin RoomIds(chatrooms)
          \/ <<header.token.claims.user.user_id, room>> \notin Memberships(participants)
       THEN /\ handler' = [handler EXCEPT ![c] =
                    Ended([@ EXCEPT !.header = header,
                                !.revoked_token = RevokedAtLogout(blacklistedtokens,
                                    refreshtokens, header.token)], "closed")]
            /\ close_code' = [close_code EXCEPT ![c] = WS_1008_POLICY_VIOLATION]
            /\ application_state' = [application_state EXCEPT ![c] = "DISCONNECTED"]
            /\ transport' = [transport EXCEPT ![c] = "closed"]
            /\ UNCHANGED <<active_connections, discd>>
       ELSE /\ handler' = [handler EXCEPT ![c] =
                    [@ EXCEPT !.pc = "receive", !.header = header,
                              !.revoked_token = RevokedAtLogout(blacklistedtokens,
                                  refreshtokens, header.token),
                              !.chatroom_id = room,
                              !.current_user = header.token.claims.user]]
            /\ application_state' = [application_state EXCEPT ![c] = "CONNECTED"]
            /\ active_connections' = ConnectAppend(active_connections, room, c)
            /\ discd' = discd \ {<<room, c>>}
            /\ UNCHANGED <<close_code, transport>>
    /\ UNCHANGED <<delivered, bcast, api, raised, req, messages, dbVars, now>>

\* A handshake that also turns away a blacklisted token.
WsHandshakeUnlessRevoked(c, header, room) ==
    /\ handler[c].pc = "init"
    /\ IF \/ HandshakeRejects(header, now)
          \/ GetBlacklistedToken(blacklistedtokens, header.token)
       THEN /\ handler' = [handler EXCEPT ![c] =
                    Ended([@ EXCEPT !.header = header,
                                !.revoked_token = RevokedAtLogout(blacklistedtokens,
                                    refreshtokens, header.token)], "closed")]
            /\ close_code' = [close_code EXCEPT ![c] = WS_1008_POLICY_VIOLATION]
            /\ application_state' = [application_state EXCEPT ![c] = "DISCONNECTED"]
            /\ transport' = [transport EXCEPT ![c] = "closed"]
            /\ UNCHANGED <<active_connections, discd>>
       ELSE /\ handler' = [handler EXCEPT ![c] =
                    [@ EXCEPT !.pc = "receive", !.header = header,
                              !.revoked_token = RevokedAtLogout(blacklistedtokens,
                                  refreshtokens, header.token),
                              !.chatroom_id = room,
                              !.current_user = header.token.claims.user]]
            /\ application_state' = [application_state EXCEPT ![c] = "CONNECTED"]
            /\ active_connections' = ConnectAppend(active_connections, room, c)
            /\ discd' = discd \ {<<room, c>>}
            /\ UNCHANGED <<close_code, transport>>
    /\ UNCHANGED <<delivered, bcast, api, raised, req, messages, dbVars, now>>

\* A client opens /ws/chatrooms/{room} with the given Authorization header:
\* the handshake checks, then manager.connect (accept, register).
WsHandshake(c, header, room) ==
    /\ handler[c].pc = "init"
    /\ IF HandshakeRejects(header, now)
       THEN /\ handler' = [handler EXCEPT ![c] =
                    Ended([@ EXCEPT !.header = header,
                                !.revoked_token = RevokedAtLogout(blacklistedtokens,
                                    refreshtokens, header.token)], "closed")]
            /\ close_code' = [close_code EXCEPT ![c] = WS_1008_POLICY_VIOLATION]
            /\ application_state' = [application_state EXCEPT ![c] = "DISCONNECTED"]
            /\ transport' = [transport EXCEPT ![c] = "closed"]
            /\ UNCHANGED <<active_connections, discd>>
       ELSE /\ handler' = [handler EXCEPT ![c] =
                    [@ EXCEPT !.pc = "receive", !.header = header,
                              !.revoked_token = RevokedAtLogout(blacklistedtokens,
                                  refreshtokens, header.token),
                              !.chatroom_id = room,
                              !.current_user = header.token.claims.user]]
            /\ application_state' = [application_state EXCEPT ![c] = "CONNECTED"]
            /\ active_connections' = ConnectAppend(active_connections, room, c)
            /\ discd' = discd \ {<<room, c>>}
            /\ UNCHANGED <<close_code, transport>>
    /\ UNCHANGED <<delivered, bcast, api, raised, req, messages, dbVars, now>>

\* receive_json returns a payload: build the Message (KeyError without
\* "content") and go on to commit it.
WsReceive(c, data) ==
    /\ handler[c].pc = "receive"
    /\ transport[c] = "open"
    /\ IF "content" \notin DOMAIN data
       THEN HandlerRaises(c, "KeyError")
       ELSE /\ MayAddMessage
            /\ handler' = [handler EXCEPT ![c] =
                    [@ EXCEPT !.pc = "commit",
                              !.new_message = NewMessage(handler[c].chatroom_id,
                                  handler[c].current_user.user_id,
                                  data.content, now)]]
            /\ UNCHANGED <<active_connections, bcast, transport, discd>>
    /\ UNCHANGED <<application_state, close_code, delivered, api, raised, req,
                   messages, dbVars, now>>

\* receive_json raises WebSocketDisconnect: the client has gone.
WsReceiveDisconnect(c) ==
    /\ handler[c].pc = "receive"
    /\ transport[c] = "closed"
    /\ HandlerDisconnects(c)
    /\ UNCHANGED <<application_state, close_code, delivered, api, raised, req,
                   messages, dbVars, now>>

\* A commit after which the handler receives again at once, the broadcast
\* of the stored payload still to run.
WsCommitPipelined(c) ==
    /\ handler[c].pc = "commit"
    /\ \E ok \in BOOLEAN :
        IF ok
        THEN LET rec == Stored(messages, handler[c].new_message) IN
             /\ messages' = Append(messages, rec)
             /\ handler' = [handler EXCEPT ![c] =
                    [@ EXCEPT !.pc = "receive", !.new_message = NoRecord]]
             /\ bcast' = [bcast EXCEPT ![WsTask(c)] = WithMembers(
                    BroadcastBegin(active_connections, handler[c].chatroom_id,
                        WsPayload(handler[c].current_user, rec), rec.id),
                    active_connections)]
             /\ UNCHANGED <<active_connections, transport, discd>>
        ELSE /\ HandlerRaises(c, "SQLAlchemyError")
             /\ UNCHANGED messages
    /\ UNCHANGED <<application_state, close_code, delivered, api, raised, req,
                   dbVars, now>>

\* session.commit() and refresh: the row is stored and the broadcast of its
\* payload begins, or the commit fails and the exception ends the handler.
WsCommit(c) ==
    /\ handler[c].pc = "commit"
    /\ \E ok \in BOOLEAN :
        IF ok
        THEN LET rec == Stored(messages, handler[c].new_message) IN
             /\ messages' = Append(messages, rec)
             /\ handler' = [handler EXCEPT ![c] =
                    [@ EXCEPT !.pc = "broadcast", !.new_message = NoRecord]]
             /\ bcast' = [bcast EXCEPT ![WsTask(c)] = WithMembers(
                    BroadcastBegin(active_connections, handler[c].chatroom_id,
                        WsPayload(handler[c].current_user, rec), rec.id),
                    active_connections)]
             /\ UNCHANGED <<active_connections, transport, discd>>
        ELSE /\ HandlerRaises(c, "SQLAlchemyError")
             /\ UNCHANGED messages
    /\ UNCHANGED <<application_state, close_code, delivered, api, raised, req,
                   dbVars, now>>

\* One turn of the handler's broadcast loop: the loop ends and the handler
\* receives again, or one send_json, which delivers or raises.
WsBroadcastStep(c) ==
    LET job == bcast[WsTask(c)] IN
    /\ handler[c].pc = "broadcast"
    /\ IF BroadcastExhausted(active_connections, job)
       THEN /\ handler' = [handler EXCEPT ![c].pc = "receive"]
            /\ bcast' = [bcast EXCEPT ![WsTask(c)] = NoJob]
            /\ UNCHANGED <<active_connections, transport, delivered, discd>>
       ELSE LET target == BroadcastTarget(active_connections, job) IN
            IF transport[target] = "open"
            THEN /\ delivered' = [delivered EXCEPT ![target] =
                        Append(@, Delivery(job))]
                 /\ bcast' = [bcast EXCEPT ![WsTask(c)].idx = @ + 1]
                 /\ UNCHANGED <<active_connections, transport, handler, discd>>
            ELSE /\ \E e \in SendErrors :
                        IF e = "WebSocketDisconnect"
                        THEN HandlerDisconnects(c)
                        ELSE HandlerRaises(c, e)
                 /\ UNCHANGED delivered
    /\ UNCHANGED <<application_state, close_code, api, raised, req, messages,
                   dbVars, now>>

\* ------------------------------------------- Spec: REST send-message
EndedReq(status) ==
    [pc |-> "done", status |-> status, chatroom_id |-> 0,
     current_user |-> NoRecord, new_message |-> NoRecord]

\* POST /chatrooms/{room}/messages by authenticated user u: the existence and
\* membership checks, then the Message is built.
RestSendAnyCaller(r, u, room, content) ==
    /\ req[r].pc = "init"
    /\ IF room \notin RoomIds(chatrooms)
       THEN req' = [req EXCEPT ![r] = EndedReq(404)]
       ELSE /\ MayAddMessage
            /\ req' = [req EXCEPT ![r] =
                    [pc |-> "commit", status |-> 0, chatroom_id |-> room,
                     current_user |-> UserPayload(u),
                     new_message |-> NewMessage(room, u, content, now)]]
    /\ UNCHANGED <<active_connections, application_state, transport, close_code,
                   delivered, bcast, api, raised, handler, messages, dbVars,
                   discd, now>>
RestSend(r, u, room, content) ==
    /\ req[r].pc = "init"
    /\ IF room \notin RoomIds(chatrooms)
       THEN req' = [req EXCEPT ![r] = EndedReq(404)]
       ELSE IF <<u, room>> \notin Memberships(participants)
       THEN req' = [req EXCEPT ![r] = EndedReq(403)]
       ELSE /\ MayAddMessage
            /\ req' = [req EXCEPT ![r] =
                    [pc |-> "commit", status |-> 0, chatroom_id |-> room,
                     current_user |-> UserPayload(u),
                     new_message |-> NewMessage(room, u, content, now)]]
    /\ UNCHANGED <<active_connections, application_state, transport, close_code,
                   delivered, bcast, api, raised, handler, messages, dbVars,
                   discd, now>>

\* m_service.send_message commits and refreshes; the broadcast begins, or the
\* failure answers 500.
RestCommit(r) ==
    /\ req[r].pc = "commit"
    /\ \E ok \in BOOLEAN :
        IF ok
        THEN LET rec == Stored(messages, req[r].new_message) IN
             /\ messages' = Append(messages, rec)
             /\ req' = [req EXCEPT ![r] =
                    [@ EXCEPT !.pc = "broadcast", !.new_message = NoRecord]]
             /\ bcast' = [bcast EXCEPT ![RestTask(r)] = WithMembers(
                    BroadcastBegin(active_connections, req[r].chatroom_id,
                        RestPayload(req[r].current_user, rec), rec.id),
                    active_connections)]
        ELSE /\ req' = [req EXCEPT ![r] = EndedReq(500)]
             /\ UNCHANGED <<messages, bcast>>
    /\ UNCHANGED <<active_connections, application_state, transport, close_code,
                   delivered, api, raised, handler, dbVars, discd, now>>

\* One turn of the request's broadcast loop; a send that raises answers 500.
RestBroadcastStep(r) ==
    LET job == bcast[RestTask(r)] IN
    /\ req[r].pc = "broadcast"
    /\ IF BroadcastExhausted(active_connections, job)
       THEN /\ req' = [req EXCEPT ![r] = EndedReq(201)]
            /\ bcast' = [bcast EXCEPT ![RestTask(r)] = NoJob]
            /\ UNCHANGED delivered
       ELSE LET target == BroadcastTarget(active_connections, job) IN
            IF transport[target] = "open"
            THEN /\ delivered' = [delivered EXCEPT ![target] =
                        Append(@, Delivery(job))]
                 /\ bcast' = [bcast EXCEPT ![RestTask(r)].idx = @ + 1]
                 /\ UNCHANGED req
            ELSE /\ req' = [req EXCEPT ![r] = EndedReq(500)]
                 /\ bcast' = [bcast EXCEPT ![RestTask(r)] = NoJob]
                 /\ UNCHANGED delivered
    /\ UNCHANGED <<active_connections, application_state, transport, close_code,
                   api, raised, handler, messages, dbVars, discd, now>>

\* A second passes.
Tick ==
    /\ now < MaxTime
    /\ now' = now + 1
    /\ UNCHANGED <<active_connections, application_state, transport, close_code,
                   delivered, bcast, api, raised, handler, req, messages, dbVars,
                   discd>>

Next ==
    \/ \E c \in Conns, header \in Headers, room \in Rooms : WsHandshake(c, header, room)
    \/ \E c \in Conns, data \in Payloads : WsReceive(c, data)
    \/ \E c \in Conns : WsReceiveDisconnect(c)
    \/ \E c \in Conns : WsCommit(c)
    \/ \E c \in Conns : WsBroadcastStep(c)
    \/ \E r \in Reqs, u \in Users, room \in Rooms, content \in Contents :
            RestSend(r, u, room, content)
    \/ \E r \in Reqs : RestCommit(r)
    \/ \E r \in Reqs : RestBroadcastStep(r)
    \/ \E c \in Conns : PeerClose(c)
    \/ Tick

Spec == Init /\ [][Next]_vars

\* ------------------------------------- SpecAuth: the authentication endpoints
\* The tokens clients hold (every token an endpoint has returned) and the
\* other bearer tokens a request may present.
HeldTokens ==
    {issued[i].access : i \in 1..Len(issued)}
        \cup {issued[i].refresh : i \in 1..Len(issued)}
ForgedTokens == {GarbageToken, BadSigToken, NoJtiToken}
\* The instants the clock visits: the sums of token lifetimes.
Instants ==
    {a * Minutes(ACCESS_TOKEN_EXPIRY) + b * Days(REFRESH_EXPIRY) :
        a \in 0..MaxTime, b \in 0..MaxTime}

\* Requests are taken in the order of their slots.
Arrives(q) ==
    /\ areq[q].pc = "init"
    /\ q > 1 => areq[q - 1].pc # "init"
Answer(r, status) ==
    [r EXCEPT !.pc = "done", !.status = status, !.session_id = NoId]

\* login's session_id and jti (two uuids), its two create_access_token calls
\* and the refresh row it saves, at time t when n uuids have been drawn.
LoginTokensOwnJti(u, t, n) ==
    LET session_id == Uuid4(n)
        jti == Uuid4(n + 1)
    IN  [access_token |-> CreateAccessToken(UserPayload(u), NoExpiry, FALSE,
                                            session_id, jti, t, n + 2),
         refresh_token |-> CreateAccessToken(UserPayload(u), Days(REFRESH_EXPIRY),
                                             TRUE, session_id, NoId, t, n + 2),
         row |-> RefreshRow(jti, u, session_id, t + Days(REFRESH_EXPIRY))]
LoginTokens(u, t, n) ==
    LET session_id == Uuid4(n)
        jti == Uuid4(n + 1)
        access_token == CreateAccessToken(UserPayload(u), NoExpiry, FALSE,
                                          session_id, jti, t, n + 2)
        refresh_token == CreateAccessToken(UserPayload(u), Days(REFRESH_EXPIRY),
                                           TRUE, session_id, jti, t, n + 2)
    IN  [access_token |-> access_token,
         refresh_token |-> refresh_token,
         row |-> RefreshRow(jti, u, session_id, refresh_token.claims.exp)]

\* POST /login by user u; found says whether the user exists and the password
\* verifies. The pair shares session_id and jti; the refresh row is saved
\* before the tokens are returned (a failed commit answers 500).
Login(q, u, found) ==
    LET pair == LoginTokens(u, now, uuids)
        access_token == pair.access_token
        refresh_token == pair.refresh_token
        row == pair.row
        r == [IdleAuth EXCEPT !.op = "login"]
    IN
    /\ Arrives(q)
    /\ IF ~found
       THEN /\ areq' = [areq EXCEPT ![q] = Answer(r, 400)]
            /\ UNCHANGED <<refreshtokens, uuids, issued>>
       ELSE /\ uuids' = uuids + 2
            /\ \E ok \in BOOLEAN :
                IF ok /\ ~RefreshUniqueViolation(refreshtokens, row)
                THEN /\ refreshtokens' = Append(refreshtokens, row)
                     /\ issued' = Append(issued,
                            [kind |-> "login", access |-> access_token,
                             refresh |-> refresh_token, at |-> now])
                     /\ areq' = [areq EXCEPT ![q] = Answer(r, 200)]
                ELSE /\ areq' = [areq EXCEPT ![q] = Answer(r, 500)]
                     /\ UNCHANGED <<refreshtokens, issued>>
    /\ UNCHANGED <<chatVars, now, call, blacklistedtokens>>

\* POST /logout with a bearer token, up to the result of
\* get_blacklisted_token: 410 when the token string is blacklisted.
LogoutLookup(q, token) ==
    LET r == [IdleAuth EXCEPT !.op = "logout", !.token = token,
                  !.jti_listed = GetBlacklistedTokenJti(blacklistedtokens,
                                      DictGet(token.claims, "jti"))]
    IN
    /\ Arrives(q)
    /\ areq' = [areq EXCEPT ![q] =
            IF GetBlacklistedToken(blacklistedtokens, token)
            THEN Answer(r, 410) ELSE [r EXCEPT !.pc = "verify"]]
    /\ UNCHANGED <<chatVars, now, call, blacklistedtokens, refreshtokens, uuids, issued>>

\* verify_access_token, the session_id test and create_token_blacklist. Only
\* HTTPException and ValueError are answered (400); the Exception or KeyError
\* of verify_access_token and the IntegrityError of the insert are not caught
\* (500).
LogoutBlacklist(q) ==
    LET token == areq[q].token
        verified == VerifyAccessToken(token, now)
        session_id == DictGet(token.claims, "session_id")
        error == CreateTokenBlacklistError(blacklistedtokens, token, now)
        r == [areq[q] EXCEPT !.verified = verified]
    IN
    /\ areq[q].op = "logout"
    /\ areq[q].pc = "verify"
    /\ IF verified.raises # "none"
       THEN /\ areq' = [areq EXCEPT ![q] = Answer(r, 500)]
            /\ UNCHANGED blacklistedtokens
       ELSE IF session_id = NoId
       THEN /\ areq' = [areq EXCEPT ![q] = Answer(r, 400)]
            /\ UNCHANGED blacklistedtokens
       ELSE IF error = "ValueError"
       THEN /\ areq' = [areq EXCEPT ![q] = Answer(r, 400)]
            /\ UNCHANGED blacklistedtokens
       ELSE \E ok \in BOOLEAN :
            IF ok /\ error = "none"
            THEN /\ blacklistedtokens' = Append(blacklistedtokens, BlacklistRow(token))
                 /\ areq' = [areq EXCEPT ![q] =
                        [r EXCEPT !.pc = "revoke", !.session_id = session_id]]
            ELSE /\ areq' = [areq EXCEPT ![q] = Answer(r, 500)]
                 /\ UNCHANGED blacklistedtokens
    /\ UNCHANGED <<chatVars, now, call, refreshtokens, uuids, issued>>

\* revoke_refresh_token(session_id) and the response: the sweep is scheduled
\* and 200 is answered, or the commit fails (500).
LogoutRevoke(q) ==
    /\ areq[q].op = "logout"
    /\ areq[q].pc = "revoke"
    /\ \E ok \in BOOLEAN :
        IF ok
        THEN /\ refreshtokens' = RevokeRefreshToken(refreshtokens, areq[q].session_id)
             /\ areq' = [areq EXCEPT ![q] =
                    [@ EXCEPT !.pc = "sweep", !.status = 200, !.session_id = NoId]]
        ELSE /\ areq' = [areq EXCEPT ![q] = Answer(@, 500)]
             /\ UNCHANGED refreshtokens
    /\ UNCHANGED <<chatVars, now, call, blacklistedtokens, uuids, issued>>

\* The background task delete_blacklisted_token, after the response; its
\* failure changes nothing.
LogoutSweep(q) ==
    /\ areq[q].op = "logout"
    /\ areq[q].pc = "sweep"
    /\ \E ok \in BOOLEAN :
        blacklistedtokens' = IF ok THEN DeleteBlacklistedToken(blacklistedtokens, now)
                             ELSE blacklistedtokens
    /\ areq' = [areq EXCEPT ![q].pc = "done"]
    /\ UNCHANGED <<chatVars, now, call, refreshtokens, uuids, issued>>

\* The refresh_token dependency of GET /access_token (app.core.dependencies):
\* it verifies the bearer token as the token service does and hands its claims
\* to the endpoint; the status it answers when the token does not verify, or 0.
RefreshTokenDependency(token, t) ==
    IF VerifyAccessToken(token, t).raises # "none" THEN 401 ELSE 0

\* GET /access_token with a bearer token: validate_refresh_token_jti, the
\* token's own exp, then a new access token for the same user and session
\* with a jti of its own.
GetNewToken(q, token) ==
    LET r == [IdleAuth EXCEPT !.op = "access_token", !.token = token]
        rejected == RefreshTokenDependency(token, now)
        token_details == token.claims
        session_id == DictGet(token_details, "session_id")
        new_access_token == CreateAccessToken(token_details.user, NoExpiry, FALSE,
                                              session_id, NoId, now, uuids)
    IN
    /\ Arrives(q)
    /\ IF rejected # 0
       THEN /\ areq' = [areq EXCEPT ![q] = Answer(r, rejected)]
            /\ UNCHANGED <<uuids, issued>>
       ELSE IF ~ValidateRefreshTokenJti(refreshtokens,
                                        DictGet(token_details, "jti"), now)
       THEN /\ areq' = [areq EXCEPT ![q] = Answer(r, 403)]
            /\ UNCHANGED <<uuids, issued>>
       ELSE IF token_details.exp > now
       THEN /\ uuids' = uuids + UuidsDrawn(session_id, NoId)
            /\ issued' = Append(issued,
                    [kind |-> "access_token", access |-> new_access_token,
                     refresh |-> token, at |-> now])
            /\ areq' = [areq EXCEPT ![q] = Answer(r, 200)]
       ELSE /\ areq' = [areq EXCEPT ![q] = Answer(r, 403)]
            /\ UNCHANGED <<uuids, issued>>
    /\ UNCHANGED <<chatVars, now, call, blacklistedtokens, refreshtokens>>

\* Time passes, to a later instant.
Elapse(t) ==
    /\ t > now
    /\ now' = t
    /\ UNCHANGED <<chatVars, authVars>>

NextAuth ==
    \/ \E q \in AuthReqs, u \in Users, found \in BOOLEAN : Login(q, u, found)
    \/ \E q \in AuthReqs : \E token \in HeldTokens \cup ForgedTokens :
            LogoutLookup(q, token)
    \/ \E q \in AuthReqs : LogoutBlacklist(q)
    \/ \E q \in AuthReqs : LogoutRevoke(q)
    \/ \E q \in AuthReqs : LogoutSweep(q)
    \/ \E q \in AuthReqs : \E token \in HeldTokens \cup {GarbageToken} :
            GetNewToken(q, token)
    \/ \E t \in Instants : Elapse(t)

SpecAuth == Init /\ [][NextAuth]_vars

\* ------------------------------------------- SpecToken: the token service
\* The lifetimes a caller passes (none, an empty one, login's refresh
\* lifetime) and the session_id / jti values it passes: none, or uuids the
\* caller drew before, which the service's own draws never repeat.
TokenExpiries == {NoExpiry, Minutes(0), Days(REFRESH_EXPIRY)}
CallerIds == {Uuid4(2 * MaxCalls + k) : k \in 0..1}
PassedIds == {NoId} \cup CallerIds

\* jwt.decode's result for a token it accepts: the payload that was encoded.
JwtDecode(token) == token.claims

\* create_access_token(user_data, expiry, refresh, session_id, jti), called
\* now.
IssueToken(u, expiry, refresh, session_id, jti) ==
    /\ call.pc = "idle"
    /\ call' = [call EXCEPT
            !.pc = "issued", !.user_data = UserPayload(u), !.expiry = expiry,
            !.refresh = refresh, !.session_id = session_id, !.jti = jti,
            !.at = now,
            !.token = CreateAccessToken(UserPayload(u), expiry, refresh,
                                        session_id, jti, now, uuids)]
    /\ uuids' = uuids + UuidsDrawn(session_id, jti)
    /\ UNCHANGED <<chatVars, now, blacklistedtokens, refreshtokens, issued, areq>>

\* verify_access_token(token), called now on the token that was issued: it
\* raises, or returns the decoded payload.
VerifyToken ==
    LET verified == VerifyAccessToken(call.token, now) IN
    /\ call.pc = "issued"
    /\ call' = [call EXCEPT
            !.pc = "verified", !.verified = verified,
            !.token_data = IF verified = Returns THEN JwtDecode(call.token)
                           ELSE NoRecord]
    /\ UNCHANGED <<chatVars, now, blacklistedtokens, refreshtokens, uuids,
                   issued, areq>>

NextToken ==
    \/ \E u \in Users, expiry \in TokenExpiries, refresh \in BOOLEAN,
          session_id \in PassedIds, jti \in PassedIds :
            IssueToken(u, expiry, refresh, session_id, jti)
    \/ VerifyToken
    \/ \E t \in Instants : Elapse(t)

SpecToken == Init /\ [][NextToken]_vars

\* ------------------------------------ SpecRooms: the chatroom endpoints
\* The selects of services/chatroom.py, as the rows they match.
GetSingleChatroom(table, chatroom_id) == {row \in table : row.id = chatroom_id}
RoomCheck(table, room_name) == {row \in table : row.name = room_name}
ParticipantCheck(table, user_id, chatroom_id) ==
    {row \in table : row.user_id = user_id /\ row.chatroom_id = chatroom_id}
\* dms_check: the direct-message rooms in which both users have a row.
DmsCheck(rooms, table, receiver_id, current_user) ==
    {room \in rooms :
        /\ room.is_direct_message
        /\ Cardinality({row.user_id : row \in
                {x \in table : /\ x.chatroom_id = room.id
                               /\ x.user_id \in {current_user, receiver_id}}}) = 2}
\* Result.scalar_one_or_none(): "none", "one", or MultipleResultsFound.
ScalarOneOrNone(rows) ==
    IF rows = {} THEN "none"
    ELSE IF Cardinality(rows) = 1 THEN "one"
    ELSE "MultipleResultsFound"
\* new_dm's f"DM-{current_user}-{reciever_id}".
DmName(current_user, reciever_id) ==
    "DM-" \o ToString(current_user) \o "-" \o ToString(reciever_id)

\* The names create-chatroom requests ask for, and the receivers of direct
\* messages: the users and an id no user has.
RoomNames == {"general", DmName(1, 2)}
Receivers == Users \cup {0}

\* Requests are numbered in the order they arrive.
RoomArrives(q) ==
    /\ rreq[q].pc = "init"
    /\ q > 1 => rreq[q - 1].pc # "init"
RoomAnswer(r, status) == [r EXCEPT !.pc = "done", !.status = status]

\* POST /chatrooms/{room}/members by user u, up to the membership check: 404
\* without the room, 400 for a member; an exception of the select is a 500.
JoinChatroom(q, u, room) ==
    LET r == [IdleRoomReq EXCEPT !.op = "join", !.current_user = u,
                                 !.chatroom_id = room]
        is_member == ScalarOneOrNone(ParticipantCheck(participants, u, room))
    IN
    /\ RoomArrives(q)
    /\ rreq' = [rreq EXCEPT ![q] =
            IF GetSingleChatroom(chatrooms, room) = {} THEN RoomAnswer(r, 404)
            ELSE IF is_member = "MultipleResultsFound" THEN RoomAnswer(r, 500)
            ELSE IF is_member = "one" THEN RoomAnswer(r, 400)
            ELSE [r EXCEPT !.pc = "join_room"]]
    /\ UNCHANGED <<wsVars, now, authVars, chatrooms, participants>>

\* room_service.join_room: the participant row is inserted and committed
\* (200), or the commit fails (500).
JoinRoom(q) ==
    /\ rreq[q].op = "join"
    /\ rreq[q].pc = "join_room"
    /\ \E ok \in BOOLEAN :
        IF ok
        THEN /\ participants' = participants \cup
                    {ChatRoomParticipant(NextId(participants),
                        rreq[q].current_user, rreq[q].chatroom_id)}
             /\ rreq' = [rreq EXCEPT ![q] = RoomAnswer(@, 200)]
        ELSE /\ rreq' = [rreq EXCEPT ![q] = RoomAnswer(@, 500)]
             /\ UNCHANGED participants
    /\ UNCHANGED <<wsVars, now, authVars, chatrooms>>

\* POST /chatrooms/ by user u with a name, up to room_check: 400 when a room
\* has the name.
CreateChatroomCheck(q, u, name) ==
    LET r == [IdleRoomReq EXCEPT !.op = "create", !.current_user = u,
                                 !.name = name]
        room_check == ScalarOneOrNone(RoomCheck(chatrooms, name))
    IN
    /\ RoomArrives(q)
    /\ rreq' = [rreq EXCEPT ![q] =
            IF room_check = "MultipleResultsFound" THEN RoomAnswer(r, 500)
            ELSE IF room_check = "one" THEN RoomAnswer(r, 400)
            ELSE [r EXCEPT !.pc = "create_chatroom"]]
    /\ UNCHANGED <<wsVars, now, authVars, chatrooms, participants>>

\* room_service.create_chatroom, first commit: the room row.
CreateChatroom(q) ==
    /\ rreq[q].op = "create"
    /\ rreq[q].pc = "create_chatroom"
    /\ \E ok \in BOOLEAN :
        IF ok
        THEN /\ chatrooms' = chatrooms \cup
                    {ChatRoom(NextId(chatrooms), rreq[q].name, FALSE, FALSE,
                              rreq[q].current_user)}
             /\ rreq' = [rreq EXCEPT ![q] =
                    [@ EXCEPT !.pc = "new_participant",
                              !.chatroom_id = NextId(chatrooms)]]
        ELSE /\ rreq' = [rreq EXCEPT ![q] = RoomAnswer(@, 500)]
             /\ UNCHANGED chatrooms
    /\ UNCHANGED <<wsVars, now, authVars, participants>>

\* room_service.create_chatroom, second commit: the creator's participant
\* row, then 201 with the new room.
CreateChatroomParticipant(q) ==
    /\ rreq[q].op = "create"
    /\ rreq[q].pc = "new_participant"
    /\ \E ok \in BOOLEAN :
        IF ok
        THEN /\ participants' = participants \cup
                    {ChatRoomParticipant(NextId(participants),
                        rreq[q].current_user, rreq[q].chatroom_id)}
             /\ rreq' = [rreq EXCEPT ![q] =
                    [RoomAnswer(@, 201) EXCEPT !.data = rreq[q].chatroom_id]]
        ELSE /\ rreq' = [rreq EXCEPT ![q] = RoomAnswer(@, 500)]
             /\ UNCHANGED participants
    /\ UNCHANGED <<wsVars, now, authVars, chatrooms>>

\* POST /dms/{receiver_id} by user u, up to dms_check: 404 for an unknown
\* receiver, 400 for oneself, the existing room (201, the route's status)
\* when dms_check finds one.
DirectMessage(q, u, receiver_id) ==
    LET r == [IdleRoomReq EXCEPT !.op = "dm", !.current_user = u,
                                 !.receiver_id = receiver_id]
        rooms == DmsCheck(chatrooms, participants, receiver_id, u)
        existing_dms == ScalarOneOrNone(rooms)
    IN
    /\ RoomArrives(q)
    /\ rreq' = [rreq EXCEPT ![q] =
            IF receiver_id \notin Users THEN RoomAnswer(r, 404)
            ELSE IF u = receiver_id THEN RoomAnswer(r, 400)
            ELSE IF existing_dms = "MultipleResultsFound" THEN RoomAnswer(r, 500)
            ELSE IF existing_dms = "one"
                 THEN [RoomAnswer(r, 201) EXCEPT
                          !.data = (CHOOSE room \in rooms : TRUE).id]
            ELSE [r EXCEPT !.pc = "new_dm"]]
    /\ UNCHANGED <<wsVars, now, authVars, chatrooms, participants>>

\* room_service.new_dm: the room and both participant rows in one
\* transaction, then 201 with the new room; or the commit fails (500).
NewDm(q) ==
    LET id == NextId(chatrooms)
        current_user == rreq[q].current_user
        reciever_id == rreq[q].receiver_id
    IN
    /\ rreq[q].op = "dm"
    /\ rreq[q].pc = "new_dm"
    /\ \E ok \in BOOLEAN :
        IF ok
        THEN /\ chatrooms' = chatrooms \cup
                    {ChatRoom(id, DmName(current_user, reciever_id), TRUE, TRUE,
                              current_user)}
             /\ participants' = participants \cup
                    {ChatRoomParticipant(NextId(participants), current_user, id),
                     ChatRoomParticipant(NextId(participants) + 1, reciever_id, id)}
             /\ rreq' = [rreq EXCEPT ![q] =
                    [RoomAnswer(@, 201) EXCEPT !.data = id]]
        ELSE /\ rreq' = [rreq EXCEPT ![q] = RoomAnswer(@, 500)]
             /\ UNCHANGED <<chatrooms, participants>>
    /\ UNCHANGED <<wsVars, now, authVars>>

NextRooms ==
    \/ \E q \in RoomReqs, u \in Users, room \in Rooms : JoinChatroom(q, u, room)
    \/ \E q \in RoomReqs : JoinRoom(q)
    \/ \E q \in RoomReqs, u \in Users, name \in RoomNames :
            CreateChatroomCheck(q, u, name)
    \/ \E q \in RoomReqs : CreateChatroom(q)
    \/ \E q \in RoomReqs : CreateChatroomParticipant(q)
    \/ \E q \in RoomReqs, u \in Users, receiver_id \in Receivers :
            DirectMessage(q, u, receiver_id)
    \/ \E q \in RoomReqs : NewDm(q)

SpecRooms == Init /\ [][NextRooms]_vars

\* -------------------- SpecSession: login, logout and streaming handshakes
\* A client logs in, opens websockets with a token it was given, and logs
\* out, in any order.
NextSession ==
    \/ \E q \in SessionReqs, u \in Users, found \in BOOLEAN : Login(q, u, found)
    \/ \E q \in SessionReqs : \E token \in HeldTokens : LogoutLookup(q, token)
    \/ \E q \in SessionReqs : LogoutBlacklist(q)
    \/ \E q \in SessionReqs : LogoutRevoke(q)
    \/ \E q \in SessionReqs : LogoutSweep(q)
    \/ \E c \in Conns, room \in Rooms : \E token \in HeldTokens :
            WsHandshake(c, Header("Bearer", token), room)
    \/ \E t \in Instants : Elapse(t)

SpecSession == Init /\ [][NextSession]_vars

\* ------------------- SpecOrder: streaming senders with several payloads
\* Each websocket's client is a user of its own, presenting a valid token,
\* and the run stores one message more, so that a connection can send a
\* second payload after its first.
OwnToken(c) == Token("ok", [user |-> UserPayload(c), exp |-> FarExp])
InitOrder == Constructed /\ quota = MaxMsgs + 1
NextOrder ==
    \/ \E c \in Conns, room \in Rooms : WsHandshake(c, Header("Bearer", OwnToken(c)), room)
    \/ \E c \in Conns, data \in Payloads : WsReceive(c, data)
    \/ \E c \in Conns : WsReceiveDisconnect(c)
    \/ \E c \in Conns : WsCommit(c)
    \/ \E c \in Conns : WsBroadcastStep(c)
    \/ \E c \in Conns : PeerClose(c)

SpecOrder == InitOrder /\ [][NextOrder]_vars

\* ====================================================================
\* Properties
\* ====================================================================
\* The websockets the registry holds, and those it holds for a room.
Registered ==
    UNION {Range(active_connections[r]) : r \in DOMAIN active_connections}
InRoom(ac, room, c) == room \in DOMAIN ac /\ c \in Range(ac[room])

\* How many times the client of c has received the message of the call tag.
Deliveries(d, c, room, tag) ==
    Cardinality({i \in 1..Len(d[c]) : d[c][i].room = room /\ d[c][i].tag = tag})

\* Task t has taken a turn of its broadcast loop in this step.
LoopTurn(t) ==
    /\ bcast[t].active
    /\ \/ bcast'[t].idx # bcast[t].idx
       \/ ~bcast'[t].active

\* --------------------------------------------------------------------
\* C1: in every reachable state of the registry no room id maps to an empty
\* list (so the disconnect of a room's last websocket leaves no entry for the
\* room), and a connect to a room without an entry leaves the room with a
\* list of exactly the new websocket.
C1_NoEmptyRoom ==
    \A room \in DOMAIN active_connections : active_connections[room] # <<>>
C1_FreshOnConnect ==
    \A room \in Rooms :
        (room \notin DOMAIN active_connections /\ room \in DOMAIN active_connections')
            => /\ Len(active_connections'[room]) = 1
               /\ application_state[active_connections'[room][1]] = "CONNECTING"
C1_RegistryNeverEmpty == []C1_NoEmptyRoom /\ [][C1_FreshOnConnect]_vars

\* A room's last websocket has been disconnected and the room has no entry;
\* another websocket has been connected to a room since.
C1_Witness ==
    \E p \in discd :
        /\ p[1] \notin DOMAIN active_connections
        /\ \E room \in DOMAIN active_connections :
                Len(active_connections[room]) = 1

\* --------------------------------------------------------------------
\* C2 (as claimed): when a broadcast to a room ends, every websocket that was
\* registered in the room when it was called, is still registered there and
\* is open has received the message exactly once.
C2_ExactlyOnce ==
    [][\A t \in ProgramTasks :
          (bcast[t].active /\ ~bcast'[t].active)
            => \A c \in bcast[t].members :
                  (InRoom(active_connections', bcast[t].room, c)
                     /\ transport'[c] = "open")
                    => Deliveries(delivered', c, bcast[t].room, bcast[t].tag) = 1
      ]_vars

\* --------------------------------------------------------------------
\* C3: once disconnect(room, c) has taken c out of the room, no step delivers
\* a message broadcast to that room to c, until c is connected to it again.
C3_NoDeliveryAfterDisconnect ==
    [][\A p \in discd :
          \A i \in (Len(delivered[p[2]]) + 1)..Len(delivered'[p[2]]) :
              delivered'[p[2]][i].room # p[1]
      ]_vars

\* c has been disconnected from a room, and another websocket has received a
\* message broadcast to that room which c has not.
C3_Witness ==
    \E p \in discd : \E c2 \in Conns \ {p[2]} :
        \E i \in 1..Len(delivered[c2]) :
            /\ delivered[c2][i].room = p[1]
            /\ Deliveries(delivered, p[2], p[1], delivered[c2][i].tag) = 0

\* --------------------------------------------------------------------
\* C4 (as claimed): once a connection's session handler has ended, for any
\* reason, its websocket is not in the registry.
C4_EndedHandlerDeregistered ==
    \A c \in Conns : handler[c].pc = "done" => c \notin Registered

\* --------------------------------------------------------------------
\* C5 (as claimed): a turn of a broadcast loop whose send_json fails, while
\* another open websocket of the room has not had the message yet, takes the
\* failing websocket out of the room's list and leaves the broadcast going on
\* to the others.
C5_OthersWaiting(t) ==
    \E c \in Range(active_connections[bcast[t].room]) :
        /\ c # BroadcastTarget(active_connections, bcast[t])
        /\ transport[c] = "open"
        /\ Deliveries(delivered, c, bcast[t].room, bcast[t].tag) = 0
C5_FailedSendPruned ==
    [][\A t \in Tasks :
          (/\ LoopTurn(t)
           /\ ~BroadcastExhausted(active_connections, bcast[t])
           /\ transport[BroadcastTarget(active_connections, bcast[t])] = "closed"
           /\ C5_OthersWaiting(t))
            => /\ ~InRoom(active_connections', bcast[t].room,
                          BroadcastTarget(active_connections, bcast[t]))
               /\ bcast'[t].active
      ]_vars

\* --------------------------------------------------------------------
\* C6 (as claimed): disconnect(room, c) for a websocket that is not registered
\* in the room raises nothing and leaves the registry as it was.
C6_DisconnectAbsentSilent ==
    [][\A room \in Rooms, c \in Conns :
          (ApiDisconnect(room, c) /\ ~InRoom(active_connections, room, c))
            => /\ raised' = "none"
               /\ active_connections' = active_connections
      ]_vars

\* --------------------------------------------------------------------
\* C7: a handshake whose bearer token fails verification at that moment (bad
\* signature or structure, or exp not after the clock) closes the websocket
\* with the policy-violation code and registers nothing; a websocket closed
\* at the handshake is in the registry in no later state.
TokenFailsAt(token, t) ==
    \/ token.sig # "ok"
    \/ ("exp" \in DOMAIN token.claims /\ token.claims.exp <= t)
C7_FailedTokenClosed ==
    \A c \in Conns :
        (/\ handler[c].pc = "init" /\ handler'[c].pc # "init"
         /\ handler'[c].header.present
         /\ handler'[c].header.scheme = "Bearer"
         /\ TokenFailsAt(handler'[c].header.token, now))
          => /\ handler'[c].exit = "closed"
             /\ close_code'[c] = 1008
             /\ application_state'[c] = "DISCONNECTED"
             /\ active_connections' = active_connections
C7_ClosedNeverRegistered ==
    \A c \in Conns : handler[c].exit = "closed" => c \notin Registered
C7_BadTokenNeverRegistered ==
    []C7_ClosedNeverRegistered /\ [][C7_FailedTokenClosed]_vars

\* A handshake presented a token whose exp had passed and was closed with 1008.
C7_Witness ==
    \E c \in Conns :
        /\ handler[c].header = Header("Bearer", ShortToken)
        /\ handler[c].exit = "closed"
        /\ close_code[c] = 1008
        /\ now >= ShortToken.claims.exp

\* --------------------------------------------------------------------
\* C8: a handshake without an Authorization value, with a value of another
\* scheme than Bearer, or with a token whose claims have no user, ends with
\* the websocket closed with the policy-violation code and never registered.
LacksCredential(header) ==
    \/ ~header.present
    \/ header.scheme # "Bearer"
    \/ "user" \notin DOMAIN header.token.claims
C8_NoCredentialClosed ==
    \A c \in Conns :
        (handler[c].pc # "init" /\ LacksCredential(handler[c].header))
          => /\ handler[c].exit = "closed"
             /\ close_code[c] = 1008
             /\ application_state[c] = "DISCONNECTED"
             /\ c \notin Registered

\* A handshake with a verified token that has no user, and one with a Basic
\* header, have both been closed with 1008.
C8_Witness ==
    /\ \E c \in Conns :
          /\ handler[c].header = Header("Bearer", NoUserToken)
          /\ handler[c].exit = "closed"
          /\ close_code[c] = 1008
    /\ \E c \in Conns :
          /\ handler[c].header = Header("Basic", GoodToken(1))
          /\ handler[c].exit = "closed"
          /\ close_code[c] = 1008

\* --------------------------------------------------------------------
\* C9 (as claimed): a handshake whose token is correctly signed and unexpired
\* but has no jti claim is closed with the policy-violation code and is not
\* registered.
C9_MissingJtiClosed ==
    \A c \in Conns :
        (/\ handler[c].pc # "init"
         /\ handler[c].header.present
         /\ handler[c].header.scheme = "Bearer"
         /\ "jti" \notin DOMAIN handler[c].header.token.claims)
          => /\ handler[c].exit = "closed"
             /\ close_code[c] = 1008
             /\ c \notin Registered

\* --------------------------------------------------------------------
\* C10: every payload a broadcast carries or has delivered, on the streaming
\* path and on the REST path, is that of a message already stored: the stored
\* row of the call has the payload's room, content and timestamp. (A commit
\* that fails stores no row, so nothing of it is broadcast.)
TimestampOf(text) == text[1]
FromStored(d) ==
    /\ d.tag \in 1..Len(messages)
    /\ messages[d.tag].id = d.tag
    /\ messages[d.tag].chatroom_id = d.room
    /\ messages[d.tag].content = d.message.content
    /\ messages[d.tag].timestamp = TimestampOf(d.message.timestamp)
    /\ d.message.sender = Username(messages[d.tag].sender_id)
C10_WriteBeforeBroadcast ==
    /\ \A c \in Conns : \A i \in 1..Len(delivered[c]) : FromStored(delivered[c][i])
    /\ \A c \in Conns :
          bcast[WsTask(c)].active => FromStored(Delivery(bcast[WsTask(c)]))
    /\ \A r \in Reqs :
          bcast[RestTask(r)].active => FromStored(Delivery(bcast[RestTask(r)]))

\* A client has received the payload of a message stored a second earlier.
C10_Witness ==
    \E c \in Conns : \E i \in 1..Len(delivered[c]) :
        /\ FromStored(delivered[c][i])
        /\ messages[delivered[c][i].tag].timestamp < now

\* --------------------------------------------------------------------
\* C11: when the transport's connection-closed signal (WebSocketDisconnect)
\* reaches the handler of a registered connection, in receive_json or in a
\* send of its own broadcast, the handler leaves its loop in that step with
\* its websocket out of the registry, and the websocket of a handler that
\* ended this way is in no room's list in any later state.
ClosedSignal == {"WebSocketDisconnect", "ValueError"}
C11_SignalDeregisters ==
    \A c \in Conns :
        /\ WsReceiveDisconnect(c) =>
                handler'[c].pc = "done" /\ c \notin Registered'
        /\ (handler[c].pc # "done" /\ handler'[c].pc = "done"
              /\ handler'[c].exit \in ClosedSignal) => c \notin Registered'
C11_DisconnectedStaysOut ==
    \A c \in Conns :
        (handler[c].pc = "done" /\ handler[c].exit \in ClosedSignal)
            => c \notin Registered
C11_ClosedConnectionDeregistered ==
    []C11_DisconnectedStaysOut /\ [][C11_SignalDeregisters]_vars

\* A registered connection's handler has ended on the signal while another
\* websocket is still registered.
C11_Witness ==
    \E c \in Conns :
        /\ handler[c].pc = "done"
        /\ handler[c].exit = "WebSocketDisconnect"
        /\ ~HandshakeRejects(handler[c].header, 0)
        /\ application_state[c] = "CONNECTED"
        /\ c \notin Registered
        /\ Registered # {}

\* --------------------------------------------------------------------
\* C12: when the REST send-message operation of a participant delivers its
\* broadcast to a registered websocket, the client receives that message
\* once, and the payload is the one the streaming path produces for the
\* stored row: exactly the keys sender, content and timestamp, with the
\* sender's username, the stored content and the stored timestamp in
\* isoformat.
RestDelivers(r, c) ==
    /\ req[r].pc = "broadcast"
    /\ bcast[RestTask(r)].active
    /\ bcast'[RestTask(r)].active
    /\ bcast'[RestTask(r)].idx = bcast[RestTask(r)].idx + 1
    /\ Len(delivered'[c]) = Len(delivered[c]) + 1
C12_RestSameShapeAsStreaming ==
    [][\A r \in Reqs, c \in Conns :
        RestDelivers(r, c) =>
            LET d == delivered'[c][Len(delivered'[c])]
                rec == messages[d.tag]
            IN  /\ d.message = WsPayload(UserPayload(rec.sender_id), rec)
                /\ Deliveries(delivered', c, d.room, d.tag) = 1]_vars

\* --------------------------------------------------------------------
\* C13: the two tokens every login has returned carry the same session_id and
\* the same jti (the access one with refresh false, the refresh one with
\* refresh true), and no two logins have a session_id or a jti in common.
Logins == {i \in 1..Len(issued) : issued[i].kind = "login"}
Exchanges == {i \in 1..Len(issued) : issued[i].kind = "access_token"}
C13_LoginPairShares ==
    /\ \A i \in Logins :
        /\ issued[i].access.claims.session_id = issued[i].refresh.claims.session_id
        /\ issued[i].access.claims.jti = issued[i].refresh.claims.jti
        /\ issued[i].access.claims.refresh = FALSE
        /\ issued[i].refresh.claims.refresh = TRUE
    /\ \A i, j \in Logins :
        i # j =>
            /\ issued[i].access.claims.session_id # issued[j].access.claims.session_id
            /\ issued[i].access.claims.jti # issued[j].access.claims.jti

\* Two logins have succeeded, of the same user in the same second.
C13_Witness ==
    \E i, j \in Logins :
        /\ i # j
        /\ issued[i].at = issued[j].at
        /\ issued[i].access.claims.user = issued[j].access.claims.user

\* --------------------------------------------------------------------
\* C14: every access token a refresh exchange has returned has refresh =
\* false, the user and the session_id of the token that was presented, and a
\* jti that differs from the presented token's jti and from the jti of every
\* token issued before it.
JtisBefore(i) ==
    {issued[j].access.claims.jti : j \in 1..(i - 1)}
        \cup {issued[j].refresh.claims.jti : j \in 1..(i - 1)}
C14_ExchangeKeepsSessionNewJti ==
    \A i \in Exchanges :
        LET new == issued[i].access.claims
            old == issued[i].refresh.claims
        IN  /\ new.refresh = FALSE
            /\ new.user = old.user
            /\ new.session_id = old.session_id
            /\ new.jti # old.jti
            /\ new.jti \notin JtisBefore(i)

\* Two exchanges of the same refresh token have succeeded.
C14_Witness ==
    \E i, j \in Exchanges :
        /\ i < j
        /\ issued[i].refresh = issued[j].refresh
        /\ issued[i].refresh.claims.refresh = TRUE

\* --------------------------------------------------------------------
\* C15: a refresh exchange answers 200 and returns a token only if the
\* refreshtokens table holds a row with the presented token's jti that is not
\* revoked and whose expires_at is still ahead; when the presented token
\* verifies and there is no such row, the exchange answers 403 and no token
\* is issued.
Exchanging(q) == areq[q].pc = "init" /\ areq'[q].op = "access_token"
HonouredRecord(token, t) ==
    \E i \in 1..Len(refreshtokens) :
        /\ "jti" \in DOMAIN token.claims
        /\ refreshtokens[i].jti = token.claims.jti
        /\ ~refreshtokens[i].revoked
        /\ refreshtokens[i].expires_at > t
StillValid(token, t) ==
    /\ token.sig = "ok"
    /\ {"jti", "exp"} \subseteq DOMAIN token.claims
    /\ token.claims.exp > t
C15_ExchangeStep ==
    \A q \in AuthReqs :
        Exchanging(q) =>
            LET token == areq'[q].token IN
            /\ areq'[q].pc = "done"
            /\ (areq'[q].status = 200 \/ issued' # issued)
                    => (HonouredRecord(token, now) /\ areq'[q].status = 200
                        /\ Len(issued') = Len(issued) + 1)
            /\ (StillValid(token, now) /\ ~HonouredRecord(token, now))
                    => (areq'[q].status = 403 /\ issued' = issued)
C15_ExchangeNeedsLiveRecord == [][C15_ExchangeStep]_vars

\* A refresh token that still verifies was refused with 403 because its
\* session's row is revoked.
C15_Witness ==
    \E q \in AuthReqs :
        /\ areq[q].op = "access_token"
        /\ areq[q].pc = "done"
        /\ areq[q].status = 403
        /\ StillValid(areq[q].token, now)
        /\ areq[q].token.claims.refresh = TRUE
        /\ \E i \in 1..Len(refreshtokens) :
                /\ refreshtokens[i].jti = areq[q].token.claims.jti
                /\ refreshtokens[i].revoked

\* --------------------------------------------------------------------
\* C16: once a logout of a session has answered 200, with the login's access
\* token or with one obtained by a refresh exchange, the session's row in
\* refreshtokens has revoked = true; a revoked row stays revoked; and every
\* later exchange presenting a token of that session returns no token (403
\* when the token itself still verifies).
SessionOf(token) == DictGet(token.claims, "session_id")
LoggedOut(session_id) ==
    \E q \in AuthReqs :
        /\ areq[q].op = "logout"
        /\ areq[q].status = 200
        /\ SessionOf(areq[q].token) = session_id
C16_LoggedOutRevoked ==
    \A q \in AuthReqs :
        (areq[q].op = "logout" /\ areq[q].status = 200) =>
            \E i \in 1..Len(refreshtokens) :
                /\ refreshtokens[i].session_id = SessionOf(areq[q].token)
                /\ refreshtokens[i].revoked
C16_RevokedStays ==
    \A i \in 1..Len(refreshtokens) :
        refreshtokens[i].revoked =>
            /\ Len(refreshtokens') >= i
            /\ refreshtokens'[i] = refreshtokens[i]
C16_NoExchangeAfterLogout ==
    \A q \in AuthReqs :
        (Exchanging(q) /\ LoggedOut(SessionOf(areq'[q].token))) =>
            /\ areq'[q].status # 200
            /\ issued' = issued
            /\ StillValid(areq'[q].token, now) => areq'[q].status = 403
C16_LogoutRevokesForGood ==
    /\ []C16_LoggedOutRevoked
    /\ [][C16_RevokedStays /\ C16_NoExchangeAfterLogout]_vars

\* A session was logged out with an access token obtained by an exchange, and
\* a later exchange of its still valid refresh token was answered 403.
C16_Witness ==
    \E q1, q2 \in AuthReqs : \E i \in Exchanges :
        /\ q1 < q2
        /\ areq[q1].op = "logout"
        /\ areq[q1].status = 200
        /\ areq[q1].token = issued[i].access
        /\ areq[q2].op = "access_token"
        /\ areq[q2].status = 403
        /\ areq[q2].token = issued[i].refresh
        /\ areq[q2].token.claims.refresh = TRUE
        /\ StillValid(areq[q2].token, now)

\* --------------------------------------------------------------------
\* C17: in every reachable state of the blacklistedtokens table no two rows
\* have the same token_jti and no two rows the same token string.
C17_BlacklistJtiUnique ==
    \A i, j \in 1..Len(blacklistedtokens) :
        i # j =>
            /\ blacklistedtokens[i].token_jti # blacklistedtokens[j].token_jti
            /\ blacklistedtokens[i].token # blacklistedtokens[j].token

\* The table holds a row, and a logout that presented another token with the
\* jti of a row has been through its insert.
C17_Witness ==
    /\ Len(blacklistedtokens) >= 1
    /\ \E q \in AuthReqs :
        /\ areq[q].op = "logout"
        /\ areq[q].pc = "done"
        /\ areq[q].jti_listed
        /\ areq[q].status # 410
        /\ \E i \in 1..Len(blacklistedtokens) :
            /\ blacklistedtokens[i].token_jti = areq[q].token.claims.jti
            /\ blacklistedtokens[i].token # areq[q].token

\* --------------------------------------------------------------------
\* C18: a token whose logout answered 200 is found by the blacklist lookup
\* (until its expiry lets the sweep delete it), and a logout that arrives
\* with a token whose jti is already in the table, the same string or the
\* pair's other token, adds no row and is answered 410.
C18_BlacklistedIsFound ==
    \A q \in AuthReqs :
        (areq[q].op = "logout" /\ areq[q].status = 200
            /\ ~(areq[q].token.claims.exp < now))
            => GetBlacklistedToken(blacklistedtokens, areq[q].token)
C18_RepeatedLogoutGone ==
    \A q \in AuthReqs :
        (areq[q].op = "logout" /\ areq[q].pc = "done" /\ areq[q].jti_listed)
            => areq[q].status = 410
C18_SecondLogoutAlreadyLoggedOut ==
    C18_BlacklistedIsFound /\ C18_RepeatedLogoutGone /\ C17_BlacklistJtiUnique

TokenExpired == Raises("Exception", "Token has expired.")
TokenMalformed == Raises("Exception", "Invalid token")
TokenMissingClaim == Raises("KeyError", "Token does not contain 'jti' field!")
SignedAndExpired(token, t) ==
    token.sig = "ok" /\ "exp" \in DOMAIN token.claims /\ token.claims.exp <= t
C20_VerifyStep ==
    /\ Cardinality({TokenExpired, TokenMalformed, TokenMissingClaim, Returns}) = 4
    /\ \A q \in AuthReqs :
        (areq[q].verified = NotVerified /\ areq'[q].verified # NotVerified) =>
            LET token == areq[q].token
                t == now
                v == areq'[q].verified
            IN  /\ SignedAndExpired(token, t) => v = TokenExpired
                /\ v = TokenExpired => SignedAndExpired(token, t)
                /\ v = TokenMalformed <=> token.sig # "ok"
                /\ v = TokenMissingClaim <=>
                        (token.sig = "ok" /\ ~SignedAndExpired(token, t)
                            /\ "jti" \notin DOMAIN token.claims)
                /\ v \in {TokenExpired, TokenMalformed, TokenMissingClaim, Returns}
C20_VerifyOutcomes == [][C20_VerifyStep]_vars

\* Logouts have run verify_access_token on an issued token after its exp, on
\* a token with a bad signature and on a token without jti.
C20_Witness ==
    \E q1, q2, q3 \in AuthReqs :
        /\ areq[q1].verified = TokenExpired
        /\ areq[q1].token \in HeldTokens
        /\ areq[q2].verified = TokenMalformed
        /\ areq[q3].verified = TokenMissingClaim

\* --------------------------------------------------------------------
\* C21: a logout whose bearer token does not verify (bad signature or
\* structure, expired, no jti) or carries no session_id is answered 400, and
\* it adds no row to blacklistedtokens and revokes no row of refreshtokens.
C21_VerifyStep ==
    \A q \in AuthReqs :
        (areq[q].op = "logout" /\ areq[q].verified = NotVerified
            /\ areq'[q].verified # NotVerified
            /\ (areq'[q].verified # Returns \/ SessionOf(areq[q].token) = NoId))
            => /\ areq'[q].pc = "done"
               /\ areq'[q].status = 400
               /\ blacklistedtokens' = blacklistedtokens
               /\ refreshtokens' = refreshtokens
C21_BadTokenLogoutIs400 == [][C21_VerifyStep]_vars

\* --------------------------------------------------------------------
\* C22: a sweep that succeeds leaves exactly the rows of blacklistedtokens
\* whose expires_at is not in the past (expires_at >= now), each unchanged
\* and in order, and one that fails leaves the table as it is; no step of any
\* kind removes or changes a row whose expires_at has not passed, so a token
\* blacklisted and not yet expired stays blacklisted.
NotPast(table, t) == {i \in 1..Len(table) : table[i].expires_at >= t}
KeptRows(table, t) ==
    [k \in 1..Cardinality(NotPast(table, t)) |->
        table[CHOOSE i \in NotPast(table, t) :
                Cardinality({j \in NotPast(table, t) : j <= i}) = k]]
C22_SweepStep ==
    \A q \in AuthReqs :
        (areq[q].pc = "sweep" /\ areq'[q].pc = "done") =>
            \/ blacklistedtokens' = KeptRows(blacklistedtokens, now)
            \/ blacklistedtokens' = blacklistedtokens
C22_UnexpiredStay ==
    \A i \in NotPast(blacklistedtokens, now) :
        \E j \in 1..Len(blacklistedtokens') :
            blacklistedtokens'[j] = blacklistedtokens[i]
C22_SweepDeletesOnlyExpired == [][C22_SweepStep /\ C22_UnexpiredStay]_vars

\* A finished logout's sweep has deleted the row of a token whose exp has
\* passed and kept the row of a token that expires at this very second.
C22_Witness ==
    \E q1, q2 \in AuthReqs :
        /\ areq[q1].op = "logout" /\ areq[q1].status = 200 /\ areq[q1].pc = "done"
        /\ areq[q2].op = "logout" /\ areq[q2].status = 200 /\ areq[q2].pc = "done"
        /\ areq[q1].token.claims.exp < now
        /\ ~GetBlacklistedToken(blacklistedtokens, areq[q1].token)
        /\ areq[q2].token.claims.exp = now
        /\ GetBlacklistedToken(blacklistedtokens, areq[q2].token)

\* --------------------------------------------------------------------
\* C23, as stated: the sweep of a logout runs only when the logout has
\* answered 200 with its session's row revoked, and after the sweep,
\* successful or failed, the answer is still 200, the refreshtokens table is
\* as before and the row of the logout's token, present before, is present.
SweptBy(q) == areq[q].op = "logout" /\ areq[q].pc = "sweep" /\ areq'[q].pc = "done"
C23_SweepAfterSuccess ==
    \A q \in AuthReqs :
        areq[q].pc = "sweep" =>
            /\ areq[q].op = "logout"
            /\ areq[q].status = 200
            /\ \E i \in 1..Len(refreshtokens) :
                /\ refreshtokens[i].session_id = SessionOf(areq[q].token)
                /\ refreshtokens[i].revoked
C23_SweepKeepsOutcomeStep ==
    \A q \in AuthReqs :
        SweptBy(q) =>
            /\ areq'[q].status = 200
            /\ refreshtokens' = refreshtokens
            /\ GetBlacklistedToken(blacklistedtokens, areq[q].token)
                    => GetBlacklistedToken(blacklistedtokens', areq[q].token)
C23_SweepKeepsOutcome ==
    []C23_SweepAfterSuccess /\ [][C23_SweepKeepsOutcomeStep]_vars

\* C23, amended: as stated, except that the row of the logout's token is
\* still present after the sweep only if the token's exp has not passed by
\* the time the sweep runs (a successful sweep deletes it otherwise).
C23_SweepKeepsUnexpiredStep ==
    \A q \in AuthReqs :
        SweptBy(q) =>
            /\ areq'[q].status = 200
            /\ refreshtokens' = refreshtokens
            /\ (GetBlacklistedToken(blacklistedtokens, areq[q].token)
                    /\ areq[q].token.claims.exp >= now)
                    => GetBlacklistedToken(blacklistedtokens', areq[q].token)
C23_SweepKeepsUnexpiredOutcome ==
    []C23_SweepAfterSuccess /\ [][C23_SweepKeepsUnexpiredStep]_vars

\* A logout's sweep has run while another logout's expired row was in the
\* table, and the logout's own token is still blacklisted.
C23_Witness ==
    \E q1, q2 \in AuthReqs :
        /\ q1 # q2
        /\ areq[q1].op = "logout" /\ areq[q1].status = 200
        /\ areq[q2].op = "logout" /\ areq[q2].status = 200 /\ areq[q2].pc = "done"
        /\ areq[q1].token.claims.exp < now
        /\ ~GetBlacklistedToken(blacklistedtokens, areq[q1].token)
        /\ areq[q2].token.claims.exp > now
        /\ GetBlacklistedToken(blacklistedtokens, areq[q2].token)

\* --------------------------------------------------------------------
\* C24: send_message answers 404 when the chatroom does not exist and 403
\* when the caller is not a participant of it; such a request stores no
\* message, starts no broadcast and delivers nothing, then or later.
C24_RejectStep ==
    \A r \in Reqs, u \in Users, room \in Rooms, content \in Contents :
        RestSend(r, u, room, content) =>
            /\ room \notin RoomIds(chatrooms) => req'[r].status = 404
            /\ (room \in RoomIds(chatrooms) /\ <<u, room>> \notin Memberships(participants))
                    => req'[r].status = 403
            /\ (room \notin RoomIds(chatrooms) \/ <<u, room>> \notin Memberships(participants))
                    => /\ req'[r].pc = "done"
                       /\ req'[r].new_message = NoRecord
                       /\ messages' = messages
                       /\ delivered' = delivered
                       /\ bcast' = bcast
C24_RejectedStaysQuiet ==
    \A r \in Reqs :
        req[r].status \in {403, 404} =>
            /\ req[r].pc = "done"
            /\ ~bcast[RestTask(r)].active
            /\ req'[r] = req[r]
            /\ bcast'[RestTask(r)] = bcast[RestTask(r)]
C24_RejectedSendNoEffect == [][C24_RejectStep /\ C24_RejectedStaysQuiet]_vars

\* A request of a non-participant was answered 403 while a websocket was
\* registered in the room, which has received nothing.
C24_Witness ==
    \E r \in Reqs, c \in Conns :
        /\ req[r].status = 403
        /\ InRoom(active_connections, 1, c)
        /\ delivered[c] = <<>>
        /\ messages = <<>>

\* --------------------------------------------------------------------
\* C25: when a broadcast returns after its loop has run to the end (no send
\* raised), every websocket that was registered in the room when it was
\* called and still is (so, a websocket being registered at most once, for
\* the whole broadcast) has received the message exactly once, whatever
\* connects and disconnects happened between two sends.
RanToEnd(t) ==
    /\ bcast[t].active
    /\ ~bcast'[t].active
    /\ BroadcastExhausted(active_connections, bcast[t])
    /\ active_connections' = active_connections
C25_StableMembersOnce ==
    [][\A t \in ProgramTasks :
          RanToEnd(t) =>
            \A c \in bcast[t].members :
                InRoom(active_connections, bcast[t].room, c)
                    => Deliveries(delivered', c, bcast[t].room, bcast[t].tag) = 1
      ]_vars

\* --------------------------------------------------------------------
\* C26: on the streaming path registration depends on the token checks
\* alone: a handshake presenting "Bearer <token>" with a well-signed,
\* unexpired token that names a user is registered under the requested room
\* id, for every room id, chatroom or not, participant or not; any other
\* handshake is closed and registers nothing.
PassesTokenChecks(header) ==
    /\ header.present
    /\ header.scheme = "Bearer"
    /\ header.token.sig = "ok"
    /\ "user" \in DOMAIN header.token.claims
    /\ "exp" \in DOMAIN header.token.claims => header.token.claims.exp > now
C26_HandshakeStep ==
    \A c \in Conns, header \in Headers, room \in Rooms :
        WsHandshake(c, header, room) =>
            IF PassesTokenChecks(header)
            THEN /\ InRoom(active_connections', room, c)
                 /\ handler'[c].pc = "receive"
                 /\ handler'[c].chatroom_id = room
            ELSE /\ active_connections' = active_connections
                 /\ close_code'[c] = WS_1008_POLICY_VIOLATION
C26_RegistrationNeedsOnlyToken == [][C26_HandshakeStep]_vars
C26_Witness ==
    \E c, d \in Conns :
        /\ 2 \notin RoomIds(chatrooms)
        /\ InRoom(active_connections, 2, c)
        /\ InRoom(active_connections, 1, d)
        /\ <<handler[d].current_user.user_id, 1>> \notin Memberships(participants)

\* --------------------------------------------------------------------
\* C27: a connection has at most one payload in flight: its handler takes
\* the next payload from receive_json only when the row of the previous one
\* has been committed and its whole broadcast has returned, and while a
\* payload is being persisted or broadcast the handler is not receiving.
InFlight(c) ==
    \/ handler[c].new_message # NoRecord
    \/ bcast[WsTask(c)].active
C27_ReceiveStep ==
    \A c \in Conns, data \in Payloads : WsReceive(c, data) => ~InFlight(c)
C27_NotReceivingInFlight ==
    \A c \in Conns : InFlight(c) => handler[c].pc \in {"commit", "broadcast"}
C27_OnePayloadAtATime == []C27_NotReceivingInFlight /\ [][C27_ReceiveStep]_vars
C27_Witness ==
    \E c \in Conns :
        /\ handler[c].exit = "KeyError"
        /\ Len(messages) = 1
        /\ delivered[c] # <<>>
        /\ \A r \in Reqs : req[r].pc = "init"
        /\ \A d \in Conns \ {c} : handler[d].pc = "init"

\* --------------------------------------------------------------------
\* C28: a login answered 200 adds exactly one refresh row, whose jti,
\* session_id and user id are those of the refresh token it returns, whose
\* expires_at is that token's exp and whose revoked flag is false, and every
\* login's refresh token has exactly one row; a login with wrong credentials
\* is answered 400, returns no token and adds no row.
RowsOf(table, jti) == {k \in 1..Len(table) : table[k].jti = jti}
C28_LoginStep ==
    \A q \in AuthReqs, u \in Users, found \in BOOLEAN :
        Login(q, u, found) =>
            /\ ~found => /\ areq'[q].status = 400
                         /\ issued' = issued
                         /\ refreshtokens' = refreshtokens
            /\ areq'[q].status = 200 =>
                /\ found
                /\ Len(issued') = Len(issued) + 1
                /\ Len(refreshtokens') = Len(refreshtokens) + 1
                /\ SubSeq(refreshtokens', 1, Len(refreshtokens)) = refreshtokens
                /\ LET token == issued'[Len(issued')].refresh
                       row == refreshtokens'[Len(refreshtokens')]
                   IN  /\ issued'[Len(issued')].kind = "login"
                       /\ token.claims.refresh = TRUE
                       /\ row.jti = token.claims.jti
                       /\ row.session_id = token.claims.session_id
                       /\ row.user_id = token.claims.user.user_id
                       /\ row.user_id = u
                       /\ row.expires_at = token.claims.exp
                       /\ row.revoked = FALSE
C28_OneRowPerLogin ==
    \A i \in Logins :
        Cardinality(RowsOf(refreshtokens, issued[i].refresh.claims.jti)) = 1
C28_LoginCreatesRefreshRecord == []C28_OneRowPerLogin /\ [][C28_LoginStep]_vars
C28_Witness ==
    \E p, q \in AuthReqs :
        /\ areq[p].op = "login" /\ areq[p].status = 200
        /\ areq[q].op = "login" /\ areq[q].status = 400
        /\ Len(refreshtokens) = 1
        /\ Len(issued) = 1

\* --------------------------------------------------------------------
\* C29: issue then verify round-trips. Whatever subject, lifetime, refresh
\* flag, session_id and jti create_access_token is called with, verifying the
\* token it returned before its exp (issuance time plus the lifetime, 120
\* minutes when none is passed) raises nothing and returns claims whose user
\* is the subject, whose exp is issuance time plus lifetime, whose refresh
\* flag is the one passed and whose session_id and jti are the ones passed
\* (an omitted one is replaced by a value of its own).
Lifetime(expiry) ==
    IF expiry = NoExpiry THEN Minutes(ACCESS_TOKEN_EXPIRY) ELSE expiry
C29_VerifyStep ==
    (VerifyToken /\ now < call.at + Lifetime(call.expiry)) =>
        /\ call'.verified = Returns
        /\ DOMAIN call'.token_data = {"user", "exp", "jti", "refresh", "session_id"}
        /\ call'.token_data.user = call.user_data
        /\ call'.token_data.exp = call.at + Lifetime(call.expiry)
        /\ call'.token_data.refresh = call.refresh
        /\ IF call.session_id # NoId
           THEN call'.token_data.session_id = call.session_id
           ELSE call'.token_data.session_id \notin PassedIds
        /\ IF call.jti # NoId
           THEN call'.token_data.jti = call.jti
           ELSE call'.token_data.jti \notin PassedIds
C29_IssueVerifyRoundTrip == [][C29_VerifyStep]_vars
C29_Witness ==
    /\ call.pc = "verified"
    /\ call.verified = Returns
    /\ call.at > 0
    /\ call.expiry = Days(REFRESH_EXPIRY)
    /\ call.refresh
    /\ call.session_id \in CallerIds
    /\ call.jti \in CallerIds
    /\ call.session_id # call.jti
    /\ call.token_data.exp > now

\* --------------------------------------------------------------------
\* C30: of two interleaved logouts presenting the same valid token, one is
\* answered 200 and the other 410 "User already logged out", and the token
\* has one blacklist row. The second one is the request that passed the
\* blacklist lookup before the first one's insert and reaches its own
\* verify-and-insert step after it: that step must answer 410 and leave the
\* one row in place.
OvertakenLogout(q) ==
    /\ areq[q].op = "logout"
    /\ areq[q].pc = "verify"
    /\ GetBlacklistedToken(blacklistedtokens, areq[q].token)
    /\ areq[q].token.sig = "ok"
    /\ areq[q].token.claims.exp > now
    /\ \E p \in AuthReqs \ {q} :
        /\ areq[p].op = "logout"
        /\ areq[p].token = areq[q].token
        /\ areq[p].status \in {0, 200}
        /\ areq[p].pc \in {"revoke", "sweep", "done"}
C30_OvertakenStep ==
    \A q \in AuthReqs :
        (OvertakenLogout(q) /\ LogoutBlacklist(q)) =>
            /\ areq'[q].status = 410
            /\ areq'[q].pc = "done"
            /\ blacklistedtokens' = blacklistedtokens
C30_InterleavedLogoutsOne200One410 == [][C30_OvertakenStep]_vars

\* --------------------------------------------------------------------
\* C31: a user is a participant of a chatroom at most once: there is never
\* more than one participant row for a (user, chatroom) pair, and a join by a
\* user who has a row for the room is answered 400 and adds no row.
C31_OneRowPerMember ==
    \A u \in Users, room \in RoomIds(chatrooms) :
        Cardinality(ParticipantCheck(participants, u, room)) <= 1
C31_MemberJoinStep ==
    \A q \in RoomReqs, u \in Users, room \in Rooms :
        (JoinChatroom(q, u, room) /\ <<u, room>> \in Memberships(participants))
            => rreq'[q].status = 400 /\ rreq'[q].pc = "done"
C31_ParticipantAtMostOnce == []C31_OneRowPerMember /\ [][C31_MemberJoinStep]_vars

\* --------------------------------------------------------------------
\* C32: chatroom names are unique: no two rows of chatrooms ever have the
\* same name, whatever create-chatroom and direct-message requests ran, and
\* a create-chatroom request for a name some room has is answered 400 and
\* creates nothing.
C32_NamesDistinct ==
    \A a, b \in chatrooms : a.name = b.name => a = b
C32_TakenNameStep ==
    \A q \in RoomReqs, u \in Users, name \in RoomNames :
        (CreateChatroomCheck(q, u, name) /\ RoomCheck(chatrooms, name) # {})
            => rreq'[q].status = 400 /\ rreq'[q].pc = "done"
C32_RoomNamesUnique == []C32_NamesDistinct /\ [][C32_TakenNameStep]_vars

\* --------------------------------------------------------------------
\* C33: the direct-message operation creates or retrieves: two distinct
\* users never have more than one direct-message room in which both have a
\* row, a request when they have one returns it and creates nothing, and a
\* request to message oneself is answered 400 and creates nothing.
C33_OneDmPerPair ==
    \A u, v \in Users :
        u # v => Cardinality(DmsCheck(chatrooms, participants, u, v)) <= 1
C33_DmStep ==
    \A q \in RoomReqs, u \in Users, v \in Users :
        DirectMessage(q, u, v) =>
            /\ u = v => rreq'[q].status = 400 /\ rreq'[q].pc = "done"
            /\ (u # v /\ DmsCheck(chatrooms, participants, v, u) # {}) =>
                    /\ rreq'[q].pc = "done"
                    /\ rreq'[q].status = 201
                    /\ rreq'[q].data \in
                            {room.id : room \in DmsCheck(chatrooms, participants, v, u)}
C33_DmCreatesOrRetrieves == []C33_OneDmPerPair /\ [][C33_DmStep]_vars

\* --------------------------------------------------------------------
\* C34: room isolation. Every send of a broadcast to room r goes to a
\* websocket that is registered under r at that moment, so a websocket that
\* is registered only under another room id never receives a message of r:
\* whatever a client holds was broadcast to a room it is, or was until its
\* deregistration, registered under.
NewDeliveries(c) == Len(delivered'[c]) > Len(delivered[c])
C34_SendStep ==
    \A c \in Conns :
        NewDeliveries(c) =>
            LET d == delivered'[c][Len(delivered'[c])] IN
            /\ InRoom(active_connections, d.room, c)
            /\ \E t \in ProgramTasks : bcast[t].active /\ bcast[t].room = d.room
C34_OwnRoomOnly ==
    \A c \in Conns : \A i \in 1..Len(delivered[c]) :
        \/ InRoom(active_connections, delivered[c][i].room, c)
        \/ <<delivered[c][i].room, c>> \in discd
C34_RoomIsolation == []C34_OwnRoomOnly /\ [][C34_SendStep]_vars
C34_Witness ==
    \E c, d \in Conns :
        /\ InRoom(active_connections, 1, c)
        /\ InRoom(active_connections, 2, d)
        /\ ~InRoom(active_connections, 1, d)
        /\ delivered[c] # <<>>
        /\ delivered[d] = <<>>
        /\ \A t \in ProgramTasks : ~bcast[t].active

\* --------------------------------------------------------------------
\* C35: the handler deregisters a websocket only when that websocket's own
\* connection has closed: a websocket whose transport is open is never
\* removed from the registry, in particular not when a send to another,
\* failed websocket raises WebSocketDisconnect during the handler's
\* broadcast.
C35_DeregisterStep ==
    \A c \in Conns, room \in Rooms :
        (InRoom(active_connections, room, c) /\ ~InRoom(active_connections', room, c))
            => transport[c] = "closed"
C35_DeregisteredOnlyWhenOwnClosed == [][C35_DeregisterStep]_vars

\* --------------------------------------------------------------------
\* C36: whether a streaming handshake is accepted depends on the token's
\* signature, expiry and user claim and on nothing else: a handshake with a
\* token a login issued is registered, under the requested room and with the
\* token's user, exactly when the token is unexpired, whether or not logout
\* has blacklisted the token and revoked its session's refresh row by then.
C36_HandshakeStep ==
    \A c \in Conns, room \in Rooms : \A token \in HeldTokens :
        WsHandshake(c, Header("Bearer", token), room) =>
            IF token.sig = "ok" /\ "user" \in DOMAIN token.claims
                                /\ token.claims.exp > now
            THEN /\ InRoom(active_connections', room, c)
                 /\ handler'[c].pc = "receive"
                 /\ handler'[c].chatroom_id = room
                 /\ handler'[c].current_user = token.claims.user
            ELSE /\ active_connections' = active_connections
                 /\ handler'[c].exit = "closed"
Sender(c, i) ==
    /\ handler[c].pc \in {"receive", "commit", "broadcast"}
    /\ messages[i].sender_id = handler[c].current_user.user_id
    /\ messages[i].chatroom_id = handler[c].chatroom_id
Holds(c, i) == {k \in 1..Len(delivered[c]) : delivered[c][k].tag = messages[i].id}
C37_OwnMessagesInOrder ==
    \A c \in Conns : \A i, j \in 1..Len(messages) :
        (/\ i < j
         /\ Sender(c, i)
         /\ Sender(c, j)
         /\ InRoom(active_connections, handler[c].chatroom_id, c)
         /\ Holds(c, j) # {})
            => \E k1 \in Holds(c, i) : \A k2 \in Holds(c, j) : k1 < k2

\* --------------------------------------------------------------------
\* C38: once logout has written the blacklist row of an access token, no
\* refresh exchange of that token's session succeeds: an exchange is never
\* answered 200 with a new access token for a refresh token while a token of
\* that token's session is blacklisted, whether the exchange runs between
\* logout's two commits or after the second one failed.
SessionBlacklisted(session_id) ==
    \E i \in 1..Len(blacklistedtokens) :
        DictGet(blacklistedtokens[i].token.claims, "session_id") = session_id
C38_ExchangeStep ==
    \A q \in AuthReqs :
        (/\ Exchanging(q)
         /\ areq'[q].status = 200
         /\ DictGet(areq'[q].token.claims, "refresh") = TRUE) =>
            ~SessionBlacklisted(DictGet(areq'[q].token.claims, "session_id"))
C38_NoExchangeOnceBlacklisted == [][C38_ExchangeStep]_vars

====
